---- MODULE Spec2Model ----
(***************************************************************************)
(* clavis: the validation framework (Context, ValidationError, Validator,  *)
(* ValidatorChain), the store key/value adapters, the ValidatedStore       *)
(* decorator and the in-memory store it wraps.                             *)
(*                                                                         *)
(* Go strings and byte slices are run-length encoded: a sequence of runs   *)
(* [c |-> character, n |-> repetitions] in which n > 0 and adjacent runs   *)
(* carry different characters, so that two encodings are equal exactly     *)
(* when the strings are.  An optional Go value (a pointer, an error, a nil *)
(* slice or map) is a sequence of length 0 (nil) or 1.                     *)
(***************************************************************************)
EXTENDS Integers, Sequences, FiniteSets, TLC

Nil == <<>>
Some(x) == <<x>>

Run(c, n) == [c |-> c, n |-> n]

Min(a, b) == IF a <= b THEN a ELSE b

\* len(s)
RECURSIVE StrLen(_)
StrLen(s) == IF s = <<>> THEN 0 ELSE Head(s).n + StrLen(Tail(s))

\* a + b on strings / append(a, b...) on byte slices
Concat(a, b) ==
    IF a = <<>> THEN b
    ELSE IF b = <<>> THEN a
    ELSE IF a[Len(a)].c = b[1].c
         THEN SubSeq(a, 1, Len(a) - 1)
              \o <<Run(b[1].c, a[Len(a)].n + b[1].n)>>
              \o Tail(b)
         ELSE a \o b

\* s[:k]
RECURSIVE Take(_, _)
Take(s, k) ==
    IF k <= 0 \/ s = <<>> THEN <<>>
    ELSE IF Head(s).n <= k
         THEN <<Head(s)>> \o Take(Tail(s), k - Head(s).n)
         ELSE <<Run(Head(s).c, k)>>

\* s[k:]
RECURSIVE Drop(_, _)
Drop(s, k) ==
    IF s = <<>> THEN <<>>
    ELSE IF k <= 0 THEN s
    ELSE IF Head(s).n <= k
         THEN Drop(Tail(s), k - Head(s).n)
         ELSE <<Run(Head(s).c, Head(s).n - k)>> \o Tail(s)

IsSpace(c) == c \in {" ", "\t", "\n", "\r"}

RECURSIVE TrimLeft(_)
TrimLeft(s) ==
    IF s = <<>> THEN <<>>
    ELSE IF IsSpace(Head(s).c) THEN TrimLeft(Tail(s)) ELSE s

RECURSIVE TrimRight(_)
TrimRight(s) ==
    IF s = <<>> THEN <<>>
    ELSE IF IsSpace(s[Len(s)].c) THEN TrimRight(SubSeq(s, 1, Len(s) - 1)) ELSE s

\* strings.TrimSpace
TrimSpace(s) == TrimRight(TrimLeft(s))

\* strings.HasPrefix
HasPrefix(s, prefix) ==
    StrLen(prefix) <= StrLen(s) /\ Take(s, StrLen(prefix)) = prefix

\* make([]byte, n): n zero bytes
MakeBytes(n) == IF n = 0 THEN <<>> ELSE <<Run("NUL", n)>>
\* CopyInto that stops one byte early
CopyInto_OneShort(dst, src) ==
    LET k == Min(StrLen(dst), StrLen(src)) - 1
    IN  Concat(Take(src, k), Drop(dst, k))


\* copy(dst, src): the first min(len(dst), len(src)) bytes of src over dst
CopyInto(dst, src) ==
    LET k == Min(StrLen(dst), StrLen(src))
    IN  Concat(Take(src, k), Drop(dst, k))


(***************************************************************************)
(* Context (internal/model/validation/context.go)                          *)
(***************************************************************************)
NewContext(target) == [Target |-> target, Metadata |-> <<>>]

\* Context.WithMetadata: a new map is filled from the receiver's, then the
\* new pair is written; the receiver's map is not touched.
ContextWithMetadata(c, key, value) ==
    LET newMetadata == (key :> value) @@ c.Metadata
    IN  [Target |-> c.Target, Metadata |-> newMetadata]

(***************************************************************************)
(* Context with its Metadata map on the heap `maps` (map pointer -> the    *)
(* map's entries; pointer 0 is the nil map), and WithMetadata by the steps *)
(* a goroutine takes through it.  f is the frame of one call: the receiver *)
(* c (a copy of the Context value, so the same map pointer), the           *)
(* arguments, newMetadata, and `todo`, the keys the range loop has yet to  *)
(* visit.                                                                  *)
(***************************************************************************)
ContextValue(target, metadata) == [Target |-> target, Metadata |-> metadata]

\* make(map[string]interface{})
MakeMap(maps) ==
    LET id == Cardinality(DOMAIN maps) + 1
    IN  [maps |-> (id :> <<>>) @@ maps, map |-> id]

\* NewContext on the heap
NewContextOn(maps, target) ==
    LET m == MakeMap(maps)
    IN  [maps |-> m.maps, ctx |-> ContextValue(target, m.map)]

Frame(c, key, value, newMetadata, todo) ==
    [c |-> c, key |-> key, value |-> value, newMetadata |-> newMetadata,
     todo |-> todo]

\* the call c.WithMetadata(key, value) up to its range loop
WithMetadataEnter(maps, c, key, value) ==
    LET m == MakeMap(maps)
    IN  [maps |-> m.maps,
         frame |-> Frame(c, key, value, m.map,
                         IF c.Metadata /= 0 THEN DOMAIN maps[c.Metadata]
                         ELSE {})]

\* one round of the range loop, which visits k: newMetadata[k] = v
WithMetadataCopy(maps, f, k) ==
    [maps |-> [maps EXCEPT ![f.newMetadata] = (k :> maps[f.c.Metadata][k]) @@ @],
     frame |-> [f EXCEPT !.todo = @ \ {k}]]
\* WithMetadataSet that writes the pair into the receiver's map as well
WithMetadataSet_OnReceiver(maps, f) ==
    IF f.c.Metadata = 0
    THEN [maps EXCEPT ![f.newMetadata] = (f.key :> f.value) @@ @]
    ELSE [maps EXCEPT ![f.newMetadata] = (f.key :> f.value) @@ @,
                      ![f.c.Metadata] = (f.key :> f.value) @@ @]


\* newMetadata[key] = value
WithMetadataSet(maps, f) ==
    [maps EXCEPT ![f.newMetadata] = (f.key :> f.value) @@ @]

\* return Context{Target: c.Target, Metadata: newMetadata}
WithMetadataReturn(f) == ContextValue(f.c.Target, f.newMetadata)

(***************************************************************************)
(* ValidationError / ValidationResult                                      *)
(* (internal/model/validation/errors.go, internal/model/errors)            *)
(***************************************************************************)
errType == "validation"
defaultCode == "validation-failed"

NewErrorData(type, code, message) ==
    [Type |-> type, Code |-> code, Metadata |-> <<>>, Message |-> message]

NewValidationError(target, value, message) ==
    [Target |-> target, Value |-> value,
     ErrorData |-> NewErrorData(errType, defaultCode, Some(message))]

ValidationErrorWithMetadata(ve, key, value) ==
    [ve EXCEPT !.ErrorData.Metadata = (key :> value) @@ @]

ValidationErrorWithCode(ve, code) ==
    [ve EXCEPT !.ErrorData.Code = code]

\* A value of type `any` is its dynamic type with the value of that type;
\* the nil interface has neither.
AnyNil == [type |-> "nil"]
AnyString(s) == [type |-> "string", str |-> s]
AnyInt(n) == [type |-> "int", int |-> n]

\* the text of a Go string held as runs
RECURSIVE Repeat(_, _)
Repeat(c, n) == IF n = 0 THEN "" ELSE c \o Repeat(c, n - 1)
RECURSIVE GoString(_)
GoString(s) ==
    IF s = <<>> THEN "" ELSE Repeat(s[1].c, s[1].n) \o GoString(Tail(s))

\* fmt's %v of an `any`
FormatV(value) ==
    IF value.type = "nil" THEN "<nil>"
    ELSE IF value.type = "string" THEN GoString(value.str)
    ELSE ToString(value.int)
\* ValidationErrorError that puts the target before the message
ValidationErrorError_TargetPrefixed(ve) ==
    IF ve.ErrorData.Message /= Nil
    THEN ve.Target \o ": " \o ve.ErrorData.Message[1]
    ELSE ve.Target \o ": validation failed for \"" \o FormatV(ve.Value) \o "\""


\* ValidationError.Error()
ValidationErrorError(ve) ==
    IF ve.ErrorData.Message /= Nil
    THEN ve.ErrorData.Message[1]
    ELSE ve.Target \o ": validation failed for \"" \o FormatV(ve.Value) \o "\""

\* ValidationErrors on the heap `errs` (pointer -> the error, with the
\* ErrorData it points to): the methods with pointer receivers, which
\* return a pointer
\* ValidationErrorWithCodeOn that sets the code on a copy and returns it
ValidationErrorWithCodeOn_Copy(errs, ve, code) ==
    [errs |-> Append(errs, ValidationErrorWithCode(errs[ve], code)),
     ret |-> Len(errs) + 1]


\* (ve *ValidationError) WithCode
ValidationErrorWithCodeOn(errs, ve, code) ==
    [errs |-> [errs EXCEPT ![ve] = ValidationErrorWithCode(@, code)],
     ret |-> ve]

\* (ve *ValidationError) WithMetadata
ValidationErrorWithMetadataOn(errs, ve, key, value) ==
    [errs |-> [errs EXCEPT ![ve] = ValidationErrorWithMetadata(@, key, value)],
     ret |-> ve]

NewValidationResult == [Errors |-> <<>>]
ValidationResultAdd(res, err) == [res EXCEPT !.Errors = Append(@, err)]
HasErrors(res) == Len(res.Errors) > 0

\* fmt.Errorf("%s", text): an error value that holds the text and nothing else
Errorf(text) == [text |-> text]

(***************************************************************************)
(* Built-in string validators (validators/string.go) and Validator[T]      *)
(* (validators/validator.go).  A Validator is its optional Name with the   *)
(* factory (kind) and the bound (max) its Validate closure captured.       *)
(***************************************************************************)
NewValidator(kind, max) == [Name |-> Nil, kind |-> kind, max |-> max]

WithName(v, name) == [Name |-> Some(name), kind |-> v.kind, max |-> v.max]

GetName(v) == IF v.Name /= Nil THEN v.Name[1] ELSE "unnamed-validator"

NotEmpty == NewValidator("NotEmpty", 0)
MaxLength(max) == NewValidator("MaxLength", max)

\* NotEmptyFn that tests the value as it is, untrimmed
NotEmptyFn_Untrimmed(value, ctx) ==
    IF value = <<>>
    THEN Some(ValidationErrorWithCode(
             NewValidationError(ctx.Target, AnyString(value),
                                ctx.Target \o ": must not be empty"),
             "not-empty"))
    ELSE Nil

\* the closure NotEmpty() returns
NotEmptyFn(value, ctx) ==
    IF TrimSpace(value) = <<>>
    THEN Some(ValidationErrorWithCode(
             NewValidationError(ctx.Target, AnyString(value),
                                ctx.Target \o ": must not be empty"),
             "not-empty"))
    ELSE Nil
\* MaxLengthFn that rejects a value of exactly max bytes as well
MaxLengthFn_Exclusive(max, value, ctx) ==
    IF StrLen(value) >= max
    THEN LET msg == ctx.Target \o ": must be at most " \o ToString(max)
                    \o " characters, got " \o ToString(StrLen(value))
         IN  Some(ValidationErrorWithCode(
                 ValidationErrorWithMetadata(
                     ValidationErrorWithMetadata(
                         NewValidationError(ctx.Target, AnyString(value), msg),
                         "max", max),
                     "actual", StrLen(value)),
                 "max-length"))
    ELSE Nil

\* MaxLengthFn with the bound and the length swapped in the message
MaxLengthFn_SwappedMessage(max, value, ctx) ==
    IF StrLen(value) > max
    THEN LET msg == ctx.Target \o ": must be at most " \o ToString(StrLen(value))
                    \o " characters, got " \o ToString(max)
         IN  Some(ValidationErrorWithCode(
                 ValidationErrorWithMetadata(
                     ValidationErrorWithMetadata(
                         NewValidationError(ctx.Target, AnyString(value), msg),
                         "max", max),
                     "actual", StrLen(value)),
                 "max-length"))
    ELSE Nil


\* the closure MaxLength(max) returns
MaxLengthFn(max, value, ctx) ==
    IF StrLen(value) > max
    THEN LET msg == ctx.Target \o ": must be at most " \o ToString(max)
                    \o " characters, got " \o ToString(StrLen(value))
         IN  Some(ValidationErrorWithCode(
                 ValidationErrorWithMetadata(
                     ValidationErrorWithMetadata(
                         NewValidationError(ctx.Target, AnyString(value), msg),
                         "max", max),
                     "actual", StrLen(value)),
                 "max-length"))
    ELSE Nil

\* Validator.Validate(value, ctx): the call of the captured closure
ValidatorValidate(v, value, ctx) ==
    IF v.kind = "NotEmpty" THEN NotEmptyFn(value, ctx)
    ELSE MaxLengthFn(v.max, value, ctx)

(***************************************************************************)
(* ValidatorChain (validators/validator.go).  Each operation returns what  *)
(* the Go method returns together with `invoked`, the indices of the       *)
(* validators whose Validate it called, in call order.                     *)
(***************************************************************************)
NewValidatorChain(validatorList) == [validators |-> validatorList]

\* ValidatorChain.Validate: the range loop from validator i on
RECURSIVE ChainValidateLoop(_, _, _, _, _, _)
ChainValidateLoop(vc, value, ctx, i, errs, invoked) ==
    IF i > Len(vc.validators) THEN [errs |-> errs, invoked |-> invoked]
    ELSE LET err == ValidatorValidate(vc.validators[i], value, ctx)
         IN  ChainValidateLoop(vc, value, ctx, i + 1,
                 IF err /= Nil THEN ValidationResultAdd(errs, err[1]) ELSE errs,
                 Append(invoked, i))

\* ChainValidate whose loop returns at the first error
RECURSIVE ChainValidateLoop_StopAtFirst(_, _, _, _, _, _)
ChainValidateLoop_StopAtFirst(vc, value, ctx, i, errs, invoked) ==
    IF i > Len(vc.validators) THEN [errs |-> errs, invoked |-> invoked]
    ELSE LET err == ValidatorValidate(vc.validators[i], value, ctx)
         IN  IF err /= Nil
             THEN [errs |-> ValidationResultAdd(errs, err[1]),
                   invoked |-> Append(invoked, i)]
             ELSE ChainValidateLoop_StopAtFirst(vc, value, ctx, i + 1, errs,
                                                Append(invoked, i))

ChainValidate_StopAtFirst(vc, value, ctx) ==
    ChainValidateLoop_StopAtFirst(vc, value, ctx, 1, NewValidationResult, <<>>)


ChainValidate(vc, value, ctx) ==
    ChainValidateLoop(vc, value, ctx, 1, NewValidationResult, <<>>)

\* ValidatorChain.ValidateFirst: the range loop from validator i on
RECURSIVE ChainValidateFirstLoop(_, _, _, _, _)
ChainValidateFirstLoop(vc, value, ctx, i, invoked) ==
    IF i > Len(vc.validators) THEN [err |-> Nil, invoked |-> invoked]
    ELSE LET err == ValidatorValidate(vc.validators[i], value, ctx)
         IN  IF err /= Nil
             THEN [err |-> err, invoked |-> Append(invoked, i)]
             ELSE ChainValidateFirstLoop(vc, value, ctx, i + 1,
                                         Append(invoked, i))

\* ChainValidateFirst that runs the whole chain and returns the first error
ChainValidateFirst_RunAll(vc, value, ctx) ==
    LET run == ChainValidateLoop(vc, value, ctx, 1, NewValidationResult, <<>>)
    IN  [err |-> IF HasErrors(run.errs) THEN Some(run.errs.Errors[1]) ELSE Nil,
         invoked |-> run.invoked]


ChainValidateFirst(vc, value, ctx) ==
    ChainValidateFirstLoop(vc, value, ctx, 1, <<>>)

(***************************************************************************)
(* Slices.  A slice is its header [ptr, len, cap] over a backing array of  *)
(* the heap `arrays` (array id -> its cap elements); the nil slice has     *)
(* ptr 0.  Where no append is involved (the store adapters above and       *)
(* below) a chain is written with the elements of its slice in place of    *)
(* the header.                                                             *)
(***************************************************************************)
Slice(ptr, len, cap) == [ptr |-> ptr, len |-> len, cap |-> cap]
NilSlice == Slice(0, 0, 0)

\* the zero Validator[T]: no name, nil Validate
ZeroValidator == [Name |-> Nil, kind |-> "nil", max |-> 0]

\* the elements s[0:len(s)], which `range s` visits in this order
Elems(arrays, sl) ==
    IF sl.len = 0 THEN <<>> ELSE SubSeq(arrays[sl.ptr], 1, sl.len)

\* the capacity append grows a full slice of these small sizes to
GrowCap(cap) == IF cap = 0 THEN 1 ELSE 2 * cap

NewArrayId(arrays) ==
    CHOOSE id \in 1..(Cardinality(DOMAIN arrays) + 1) : id \notin DOMAIN arrays

\* append(sl, x): in place when there is room, else into a new, larger array
\* that the elements are copied to
GoAppend(arrays, sl, x) ==
    IF sl.len < sl.cap
    THEN [arrays |-> [arrays EXCEPT ![sl.ptr][sl.len + 1] = x],
          slice |-> Slice(sl.ptr, sl.len + 1, sl.cap)]
    ELSE LET id == NewArrayId(arrays)
             newcap == GrowCap(sl.cap)
             array == [i \in 1..newcap |->
                          IF i <= sl.len THEN arrays[sl.ptr][i]
                          ELSE IF i = sl.len + 1 THEN x
                          ELSE ZeroValidator]
         IN  [arrays |-> (id :> array) @@ arrays,
              slice |-> Slice(id, sl.len + 1, newcap)]

\* the garbage collector: the arrays some slice of `roots` points into
Collect(arrays, roots) ==
    [id \in {sl.ptr : sl \in roots} \ {0} |-> arrays[id]]

\* the chain as the range loops of Validate and ValidateFirst see it
ChainView(arrays, vc) == NewValidatorChain(Elems(arrays, vc.validators))
\* ValidatorChainAdd that builds a new chain and leaves the receiver alone
ValidatorChainAdd_Copy(arrays, chains, vc, validator) ==
    LET a == GoAppend(arrays, chains[vc].validators, validator)
        new == Cardinality(DOMAIN chains) + 1
    IN  [arrays |-> a.arrays,
         chains |-> (new :> [validators |-> a.slice]) @@ chains,
         ret |-> new]


\* ValidatorChain.Add on the chain object chains[vc] (vc is the pointer)
ValidatorChainAdd(arrays, chains, vc, validator) ==
    LET a == GoAppend(arrays, chains[vc].validators, validator)
    IN  [arrays |-> a.arrays,
         chains |-> [chains EXCEPT ![vc].validators = a.slice],
         ret |-> vc]

(***************************************************************************)
(* ConditionalValidator (validators/validator.go).  A condition is the     *)
(* closure's kind with what it captured: "equals" (value == arg) and       *)
(* "false" are those of the package's tests, "target" reads the context    *)
(* (ctx.Target == arg).                                                    *)
(***************************************************************************)
Condition(kind, arg) == [kind |-> kind, arg |-> arg]

ConditionCall(cond, value, ctx) ==
    IF cond.kind = "equals" THEN value = cond.arg
    ELSE IF cond.kind = "target" THEN ctx.Target = cond.arg
    ELSE FALSE

NewConditionalValidator(condition, validator) ==
    [Condition |-> condition, Validator |-> validator]
\* ConditionalValidatorValidate that runs the validator whatever the condition
ConditionalValidatorValidate_Unconditional(cv, value, ctx) ==
    [err |-> ValidatorValidate(cv.Validator, value, ctx), invoked |-> TRUE]


\* ConditionalValidator.Validate: the error with `invoked`, whether the
\* wrapped validator's Validate was called
ConditionalValidatorValidate(cv, value, ctx) ==
    IF ConditionCall(cv.Condition, value, ctx)
    THEN [err |-> ValidatorValidate(cv.Validator, value, ctx), invoked |-> TRUE]
    ELSE [err |-> Nil, invoked |-> FALSE]

\* ConditionalValidator.WithName
ConditionalValidatorWithName(cv, name) ==
    [Condition |-> cv.Condition, Validator |-> WithName(cv.Validator, name)]

(***************************************************************************)
(* Store key/value adapters and the predefined validators                  *)
(* (internal/store/validation/validated_store.go, from line 141)           *)
(***************************************************************************)
NewStoreKeyValidator(validatorList) ==
    [chain |-> NewValidatorChain(validatorList)]
\* StoreKeyValidatorValidate returning the last collected error
StoreKeyValidatorValidate_LastError(skv, key) ==
    LET ctx == NewContext("key")
        run == ChainValidate(skv.chain, key, ctx)
        result == run.errs
    IN  [err |-> IF HasErrors(result)
                 THEN Some(Errorf(ValidationErrorError(
                               result.Errors[Len(result.Errors)])))
                 ELSE Nil,
         invoked |-> run.invoked]


\* StoreKeyValidator.Validate
StoreKeyValidatorValidate(skv, key) ==
    LET ctx == NewContext("key")
        run == ChainValidate(skv.chain, key, ctx)
        result == run.errs
    IN  [err |-> IF HasErrors(result)
                 THEN Some(Errorf(ValidationErrorError(result.Errors[1])))
                 ELSE Nil,
         invoked |-> run.invoked]

NonEmptyKeyValidator == WithName(NotEmpty, "non-empty-key")
KeyLengthValidator(maxLength) == WithName(MaxLength(maxLength), "key-length")

\* the closure ValueSizeValidator(maxSize) returns
ValueSizeFn(maxSize, key, value, ctx) ==
    IF StrLen(value) > maxSize
    THEN LET msg == "value too large: maximum " \o ToString(maxSize)
                    \o " bytes, got " \o ToString(StrLen(value))
         IN  Some(ValidationErrorWithCode(
                 ValidationErrorWithMetadata(
                     ValidationErrorWithMetadata(
                         ValidationErrorWithMetadata(
                             NewValidationError(ctx.Target, AnyInt(StrLen(value)), msg),
                             "max-size", maxSize),
                         "actual-size", StrLen(value)),
                     "key", key),
                 "value-too-large"))
    ELSE Nil

\* the validateFn of the store tests' content rule:
\* the value, trimmed, starts with "{" and ends with "}"
JSONLike(value) ==
    LET str == TrimSpace(value)
    IN  str /= <<>> /\ str[1].c = "{" /\ str[Len(str)].c = "}"

\* the closure ValueContentValidator(validateFn, errorMsg) returns
ValueContentFn(errorMsg, key, value, ctx) ==
    IF ~JSONLike(value)
    THEN Some(ValidationErrorWithCode(
             ValidationErrorWithMetadata(
                 NewValidationError(ctx.Target, AnyString(value),
                     "value validation failed: " \o errorMsg),
                 "key", key),
             "value-content-invalid"))
    ELSE Nil

ValueSizeValidator(maxSize) ==
    [kind |-> "ValueSize", maxSize |-> maxSize, errorMsg |-> ""]
ValueContentValidator(errorMsg) ==
    [kind |-> "ValueContent", maxSize |-> 0, errorMsg |-> errorMsg]

\* the call validator(key, value, ctx) of a value rule
ValueRuleValidate(rule, key, value, ctx) ==
    IF rule.kind = "ValueSize" THEN ValueSizeFn(rule.maxSize, key, value, ctx)
    ELSE ValueContentFn(rule.errorMsg, key, value, ctx)

NewStoreValueValidator(validatorFuncs) == [validators |-> validatorFuncs]

\* StoreValueValidator.Validate: the range loop from rule i on
RECURSIVE StoreValueValidatorLoop(_, _, _, _, _, _)
StoreValueValidatorLoop(svv, key, value, ctx, i, invoked) ==
    IF i > Len(svv.validators) THEN [err |-> Nil, invoked |-> invoked]
    ELSE LET err == ValueRuleValidate(svv.validators[i], key, value, ctx)
         IN  IF err /= Nil
             THEN [err |-> Some(Errorf(ValidationErrorError(err[1]))),
                   invoked |-> Append(invoked, i)]
             ELSE StoreValueValidatorLoop(svv, key, value, ctx, i + 1,
                                          Append(invoked, i))
\* StoreValueValidatorValidate running every rule and returning the first
\* error found
RECURSIVE StoreValueValidatorAllLoop(_, _, _, _, _, _, _)
StoreValueValidatorAllLoop(svv, key, value, ctx, i, first, invoked) ==
    IF i > Len(svv.validators) THEN [err |-> first, invoked |-> invoked]
    ELSE LET err == ValueRuleValidate(svv.validators[i], key, value, ctx)
         IN  StoreValueValidatorAllLoop(svv, key, value, ctx, i + 1,
                 IF first = Nil /\ err /= Nil
                 THEN Some(Errorf(ValidationErrorError(err[1])))
                 ELSE first,
                 Append(invoked, i))

StoreValueValidatorValidate_CollectAll(svv, key, value) ==
    LET ctx == ContextWithMetadata(NewContext("value"), "key", key)
    IN  StoreValueValidatorAllLoop(svv, key, value, ctx, 1, Nil, <<>>)


StoreValueValidatorValidate(svv, key, value) ==
    LET ctx == ContextWithMetadata(NewContext("value"), "key", key)
    IN  StoreValueValidatorLoop(svv, key, value, ctx, 1, <<>>)

DefaultKeyMaxLength == 1024
ValueMaxSize == 100 * 1024 * 1024

DefaultKeyValidators ==
    <<NonEmptyKeyValidator, KeyLengthValidator(DefaultKeyMaxLength)>>
DefaultValueValidators == <<ValueSizeValidator(ValueMaxSize)>>

(***************************************************************************)
(* MemoryStore (internal/store/memory/memory_store.go).  data is the       *)
(* optional map: Nil once Close has run.  Every method runs under ms.mu,   *)
(* so each is one atomic step.  A store result is the record               *)
(* [value, found, err, scan]; the fields a method does not return are zero.*)
(***************************************************************************)
Result(value, found, err, scan) ==
    [value |-> value, found |-> found, err |-> err, scan |-> scan]

NewMemoryStore == [data |-> Some(<<>>)]

\* valueCopy := make([]byte, len(value)); copy(valueCopy, value)
CopyBytes(value) == CopyInto(MakeBytes(StrLen(value)), value)

MemoryStoreClose(ms) ==
    [store |-> [data |-> Nil], ret |-> Result(Nil, FALSE, Nil, Nil)]

MemoryStoreGet(ms, key) ==
    IF key = <<>>
    THEN [store |-> ms,
          ret |-> Result(Nil, FALSE, Some(Errorf("key cannot be empty")), Nil)]
    ELSE IF ms.data = Nil
    THEN [store |-> ms,
          ret |-> Result(Nil, FALSE, Some(Errorf("store is closed")), Nil)]
    ELSE IF key \notin DOMAIN ms.data[1]
    THEN [store |-> ms, ret |-> Result(Nil, FALSE, Nil, Nil)]
    ELSE [store |-> ms,
          ret |-> Result(Some(CopyBytes(ms.data[1][key])), TRUE, Nil, Nil)]

\* MemoryStorePut that makes a new map when the store is closed
MemoryStorePut_Reopen(ms, key, value) ==
    IF key = <<>>
    THEN [store |-> ms,
          ret |-> Result(Nil, FALSE, Some(Errorf("key cannot be empty")), Nil)]
    ELSE [store |-> [data |-> Some((key :> CopyBytes(value))
                                   @@ (IF ms.data = Nil THEN <<>> ELSE ms.data[1]))],
          ret |-> Result(Nil, FALSE, Nil, Nil)]

MemoryStorePut(ms, key, value) ==
    IF key = <<>>
    THEN [store |-> ms,
          ret |-> Result(Nil, FALSE, Some(Errorf("key cannot be empty")), Nil)]
    ELSE IF ms.data = Nil
    THEN [store |-> ms,
          ret |-> Result(Nil, FALSE, Some(Errorf("store is closed")), Nil)]
    ELSE [store |-> [data |-> Some((key :> CopyBytes(value)) @@ ms.data[1])],
          ret |-> Result(Nil, FALSE, Nil, Nil)]

MemoryStoreDelete(ms, key) ==
    IF key = <<>>
    THEN [store |-> ms,
          ret |-> Result(Nil, FALSE, Some(Errorf("key cannot be empty")), Nil)]
    ELSE IF ms.data = Nil
    THEN [store |-> ms,
          ret |-> Result(Nil, FALSE, Some(Errorf("store is closed")), Nil)]
    ELSE [store |-> [data |-> Some([k \in DOMAIN ms.data[1] \ {key}
                                      |-> ms.data[1][k]])],
          ret |-> Result(Nil, FALSE, Nil, Nil)]

MemoryStoreScan(ms, prefix) ==
    IF ms.data = Nil
    THEN [store |-> ms,
          ret |-> Result(Nil, FALSE, Some(Errorf("store is closed")), Nil)]
    ELSE [store |-> ms,
          ret |-> Result(Nil, FALSE, Nil,
                     Some([k \in {x \in DOMAIN ms.data[1] : HasPrefix(x, prefix)}
                             |-> CopyBytes(ms.data[1][k])]))]

(***************************************************************************)
(* ValidatedStore (internal/store/validation/validated_store.go, lines     *)
(* 74-139).  f is the decorator [inner, keyValidator, valueValidator].     *)
(* Each method yields                                                      *)
(*   ret        what the method returns,                                   *)
(*   inner      the inner store after the call,                            *)
(*   innerCalls the calls made on the inner store, each with its result,   *)
(*   trace      the validator calls made: [adapter, rule] with rule 0 for  *)
(*              the adapter's Validate itself and i for its i-th rule.     *)
(***************************************************************************)
NewValidatedStore(s, kv, vv) ==
    [inner |-> s, keyValidator |-> kv, valueValidator |-> vv]

NewWithDefaultValidators(s) ==
    NewValidatedStore(s, NewStoreKeyValidator(DefaultKeyValidators),
                      NewStoreValueValidator(DefaultValueValidators))

InnerCall(op, key, value, ret) ==
    [op |-> op, key |-> key, value |-> value, ret |-> ret]

TraceOf(adapter, invoked) ==
    <<[adapter |-> adapter, rule |-> 0]>>
    \o [i \in 1..Len(invoked) |-> [adapter |-> adapter, rule |-> invoked[i]]]

Outcome(ret, inner, innerCalls, trace) ==
    [ret |-> ret, inner |-> inner, innerCalls |-> innerCalls, trace |-> trace]
\* ValidatedStoreGet with the inner Get made before the key is validated
ValidatedStoreGet_InnerFirst(f, key) ==
    LET k == StoreKeyValidatorValidate(f.keyValidator, key)
        r == MemoryStoreGet(f.inner, key)
    IN  IF k.err /= Nil
        THEN Outcome(Result(r.ret.value, r.ret.found, k.err, Nil), r.store,
                     <<InnerCall("Get", key, Nil, r.ret)>>,
                     TraceOf("key", k.invoked))
        ELSE Outcome(r.ret, r.store, <<InnerCall("Get", key, Nil, r.ret)>>,
                     TraceOf("key", k.invoked))


\* ValidatedStoreGet with the inner store's error dropped
ValidatedStoreGet_DropInnerError(f, key) ==
    LET k == StoreKeyValidatorValidate(f.keyValidator, key)
        r == MemoryStoreGet(f.inner, key)
    IN  IF k.err /= Nil
        THEN Outcome(Result(Nil, FALSE, k.err, Nil), f.inner, <<>>,
                     TraceOf("key", k.invoked))
        ELSE Outcome(Result(r.ret.value, r.ret.found, Nil, Nil), r.store,
                     <<InnerCall("Get", key, Nil, r.ret)>>,
                     TraceOf("key", k.invoked))


ValidatedStoreGet(f, key) ==
    LET k == StoreKeyValidatorValidate(f.keyValidator, key)
        r == MemoryStoreGet(f.inner, key)
    IN  IF k.err /= Nil
        THEN Outcome(Result(Nil, FALSE, k.err, Nil), f.inner, <<>>,
                     TraceOf("key", k.invoked))
        ELSE Outcome(r.ret, r.store, <<InnerCall("Get", key, Nil, r.ret)>>,
                     TraceOf("key", k.invoked))
\* ValidatedStorePut with the value validator's error dropped
ValidatedStorePut_IgnoreValueError(f, key, value) ==
    LET k == StoreKeyValidatorValidate(f.keyValidator, key)
        v == StoreValueValidatorValidate(f.valueValidator, key, value)
        r == MemoryStorePut(f.inner, key, value)
    IN  IF k.err /= Nil
        THEN Outcome(Result(Nil, FALSE, k.err, Nil), f.inner, <<>>,
                     TraceOf("key", k.invoked))
        ELSE Outcome(r.ret, r.store,
                     <<InnerCall("Put", key, Some(value), r.ret)>>,
                     TraceOf("key", k.invoked) \o TraceOf("value", v.invoked))

\* ValidatedStorePut with the two validations in the other order
ValidatedStorePut_ValueFirst(f, key, value) ==
    LET k == StoreKeyValidatorValidate(f.keyValidator, key)
        v == StoreValueValidatorValidate(f.valueValidator, key, value)
        r == MemoryStorePut(f.inner, key, value)
    IN  IF v.err /= Nil
        THEN Outcome(Result(Nil, FALSE, v.err, Nil), f.inner, <<>>,
                     TraceOf("value", v.invoked))
        ELSE IF k.err /= Nil
        THEN Outcome(Result(Nil, FALSE, k.err, Nil), f.inner, <<>>,
                     TraceOf("value", v.invoked) \o TraceOf("key", k.invoked))
        ELSE Outcome(r.ret, r.store,
                     <<InnerCall("Put", key, Some(value), r.ret)>>,
                     TraceOf("value", v.invoked) \o TraceOf("key", k.invoked))


ValidatedStorePut(f, key, value) ==
    LET k == StoreKeyValidatorValidate(f.keyValidator, key)
        v == StoreValueValidatorValidate(f.valueValidator, key, value)
        r == MemoryStorePut(f.inner, key, value)
    IN  IF k.err /= Nil
        THEN Outcome(Result(Nil, FALSE, k.err, Nil), f.inner, <<>>,
                     TraceOf("key", k.invoked))
        ELSE IF v.err /= Nil
        THEN Outcome(Result(Nil, FALSE, v.err, Nil), f.inner, <<>>,
                     TraceOf("key", k.invoked) \o TraceOf("value", v.invoked))
        ELSE Outcome(r.ret, r.store,
                     <<InnerCall("Put", key, Some(value), r.ret)>>,
                     TraceOf("key", k.invoked) \o TraceOf("value", v.invoked))

ValidatedStoreDelete(f, key) ==
    LET k == StoreKeyValidatorValidate(f.keyValidator, key)
        r == MemoryStoreDelete(f.inner, key)
    IN  IF k.err /= Nil
        THEN Outcome(Result(Nil, FALSE, k.err, Nil), f.inner, <<>>,
                     TraceOf("key", k.invoked))
        ELSE Outcome(r.ret, r.store, <<InnerCall("Delete", key, Nil, r.ret)>>,
                     TraceOf("key", k.invoked))
\* ValidatedStoreScan with the prefix validated as a key
ValidatedStoreScan_ValidatePrefix(f, prefix) ==
    LET k == StoreKeyValidatorValidate(f.keyValidator, prefix)
        r == MemoryStoreScan(f.inner, prefix)
    IN  IF k.err /= Nil
        THEN Outcome(Result(Nil, FALSE, k.err, Nil), f.inner, <<>>,
                     TraceOf("key", k.invoked))
        ELSE Outcome(r.ret, r.store, <<InnerCall("Scan", prefix, Nil, r.ret)>>,
                     TraceOf("key", k.invoked))


ValidatedStoreScan(f, prefix) ==
    LET r == MemoryStoreScan(f.inner, prefix)
    IN  Outcome(r.ret, r.store, <<InnerCall("Scan", prefix, Nil, r.ret)>>, <<>>)

\* ValidatedStoreClose that returns without closing the inner store
ValidatedStoreClose_Undelegated(f) ==
    Outcome(Result(Nil, FALSE, Nil, Nil), f.inner, <<>>, <<>>)

ValidatedStoreClose(f) ==
    LET r == MemoryStoreClose(f.inner)
    IN  Outcome(r.ret, r.store, <<InnerCall("Close", <<>>, Nil, r.ret)>>, <<>>)

(***************************************************************************)
(* Validator[T] as a struct value on a heap of names                       *)
(* (validators/validator.go, string.go, numeric.go).  A Validator is       *)
(* [Name, Validate]: Name is Nil or Some(p) with p a pointer into `names`, *)
(* the heap of the name strings, and Validate is the closure, held as the  *)
(* factory that made it (kind) with the bounds it captured (min, max).     *)
(* An operation that may allocate returns the heap with what the Go method *)
(* returns, [names, ret].                                                  *)
(***************************************************************************)
Closure(kind, min, max) == [kind |-> kind, min |-> min, max |-> max]

NewValidatorFn(validateFn) == [Name |-> Nil, Validate |-> validateFn]

\* WithNameOn that stores the name where the receiver's Name points to
WithNameOn_InPlace(names, v, name) ==
    IF v.Name /= Nil
    THEN [names |-> [names EXCEPT ![v.Name[1]] = name], ret |-> v]
    ELSE [names |-> Append(names, name),
          ret |-> [Name |-> Some(Len(names) + 1), Validate |-> v.Validate]]

\* (v Validator[T]) WithName(name): &name is a new variable on the heap
WithNameOn(names, v, name) ==
    [names |-> Append(names, name),
     ret |-> [Name |-> Some(Len(names) + 1), Validate |-> v.Validate]]

\* (v Validator[T]) GetName()
GetNameOn(names, v) ==
    IF v.Name /= Nil THEN names[v.Name[1]] ELSE "unnamed-validator"

\* (cv ConditionalValidator[T]) WithName(name)
ConditionalValidatorWithNameOn(names, cv, name) ==
    LET named == WithNameOn(names, cv.Validator, name)
    IN  [names |-> named.names,
         ret |-> [Condition |-> cv.Condition, Validator |-> named.ret]]

\* the closure Length(min, max) returns
LengthFn(min, max, value, ctx) ==
    LET length == StrLen(value)
    IN  IF length < min \/ length > max
        THEN LET msg == ctx.Target \o ": must be between " \o ToString(min)
                        \o " and " \o ToString(max) \o " characters, got "
                        \o ToString(length)
             IN  Some(ValidationErrorWithCode(
                     ValidationErrorWithMetadata(
                         ValidationErrorWithMetadata(
                             ValidationErrorWithMetadata(
                                 NewValidationError(ctx.Target,
                                                    AnyString(value), msg),
                                 "min-length", min),
                             "max-length", max),
                         "actual-length", length),
                     "length-range"))
        ELSE Nil

\* the closure MinLength(min) returns
MinLengthFn(min, value, ctx) ==
    IF StrLen(value) < min
    THEN LET msg == ctx.Target \o ": must be at least " \o ToString(min)
                    \o " characters, got " \o ToString(StrLen(value))
         IN  Some(ValidationErrorWithCode(
                 ValidationErrorWithMetadata(
                     ValidationErrorWithMetadata(
                         NewValidationError(ctx.Target, AnyString(value), msg),
                         "min", min),
                     "actual", StrLen(value)),
                 "min-length"))
    ELSE Nil

\* the closure NumericRange(min, max) returns
NumericRangeFn(min, max, value, ctx) ==
    IF value < min \/ value > max
    THEN LET msg == ctx.Target \o ": must be between " \o ToString(min)
                    \o " and " \o ToString(max) \o ", got " \o ToString(value)
         IN  Some(ValidationErrorWithCode(
                 ValidationErrorWithMetadata(
                     ValidationErrorWithMetadata(
                         ValidationErrorWithMetadata(
                             NewValidationError(ctx.Target, AnyInt(value), msg),
                             "min", min),
                         "max", max),
                     "actual", value),
                 "numeric-range"))
    ELSE Nil

\* the closure Min(min) returns
NumericMinFn(min, value, ctx) ==
    IF value < min
    THEN LET msg == ctx.Target \o ": must be at least " \o ToString(min)
                    \o ", got " \o ToString(value)
         IN  Some(ValidationErrorWithCode(
                 ValidationErrorWithMetadata(
                     ValidationErrorWithMetadata(
                         NewValidationError(ctx.Target, AnyInt(value), msg),
                         "min", min),
                     "actual", value),
                 "min-value"))
    ELSE Nil

\* the closure Max(max) returns
NumericMaxFn(max, value, ctx) ==
    IF value > max
    THEN LET msg == ctx.Target \o ": must be at most " \o ToString(max)
                    \o ", got " \o ToString(value)
         IN  Some(ValidationErrorWithCode(
                 ValidationErrorWithMetadata(
                     ValidationErrorWithMetadata(
                         NewValidationError(ctx.Target, AnyInt(value), msg),
                         "max", max),
                     "actual", value),
                 "max-value"))
    ELSE Nil

\* the closure Positive() returns
PositiveFn(value, ctx) ==
    IF value <= 0
    THEN Some(ValidationErrorWithCode(
             NewValidationError(ctx.Target, AnyInt(value),
                 ctx.Target \o ": must be positive, got " \o ToString(value)),
             "non-positive"))
    ELSE Nil

\* the closure NonNegative() returns
NonNegativeFn(value, ctx) ==
    IF value < 0
    THEN Some(ValidationErrorWithCode(
             NewValidationError(ctx.Target, AnyInt(value),
                 ctx.Target \o ": must be non-negative, got "
                 \o ToString(value)),
             "non-negative"))
    ELSE Nil

\* v.Validate(value, ctx): the call of the closure fn on a value of its type
\* T, held as an `any`
ClosureCall(fn, value, ctx) ==
    IF fn.kind = "NotEmpty" THEN NotEmptyFn(value.str, ctx)
    ELSE IF fn.kind = "Length" THEN LengthFn(fn.min, fn.max, value.str, ctx)
    ELSE IF fn.kind = "MinLength" THEN MinLengthFn(fn.min, value.str, ctx)
    ELSE IF fn.kind = "MaxLength" THEN MaxLengthFn(fn.max, value.str, ctx)
    ELSE IF fn.kind = "NumericRange"
    THEN NumericRangeFn(fn.min, fn.max, value.int, ctx)
    ELSE IF fn.kind = "Min" THEN NumericMinFn(fn.min, value.int, ctx)
    ELSE IF fn.kind = "Max" THEN NumericMaxFn(fn.max, value.int, ctx)
    ELSE IF fn.kind = "Positive" THEN PositiveFn(value.int, ctx)
    ELSE NonNegativeFn(value.int, ctx)

\* the factories of string.go: NotEmpty(), Length(min, max), MinLength(min),
\* MaxLength(max)
NotEmptyOn(names) ==
    [names |-> names, ret |-> NewValidatorFn(Closure("NotEmpty", 0, 0))]
LengthOn(names, min, max) ==
    [names |-> names, ret |-> NewValidatorFn(Closure("Length", min, max))]
MinLengthOn(names, min) ==
    [names |-> names, ret |-> NewValidatorFn(Closure("MinLength", min, 0))]
MaxLengthOn(names, max) ==
    [names |-> names, ret |-> NewValidatorFn(Closure("MaxLength", 0, max))]

\* the factories of numeric.go: NumericRange(min, max), Min(min), Max(max),
\* Positive(), NonNegative()
NumericRangeOn(names, min, max) ==
    WithNameOn(names, NewValidatorFn(Closure("NumericRange", min, max)),
               "numeric-range")
NumericMinOn(names, min) ==
    WithNameOn(names, NewValidatorFn(Closure("Min", min, 0)), "min-value")
NumericMaxOn(names, max) ==
    WithNameOn(names, NewValidatorFn(Closure("Max", 0, max)), "max-value")
PositiveOn(names) ==
    WithNameOn(names, NewValidatorFn(Closure("Positive", 0, 0)), "positive")
NonNegativeOn(names) ==
    WithNameOn(names, NewValidatorFn(Closure("NonNegative", 0, 0)),
               "non-negative")

\* the call of the factory f = [kind, min, max] with its arguments
FactoryCall(names, f) ==
    IF f.kind = "NotEmpty" THEN NotEmptyOn(names)
    ELSE IF f.kind = "Length" THEN LengthOn(names, f.min, f.max)
    ELSE IF f.kind = "MinLength" THEN MinLengthOn(names, f.min)
    ELSE IF f.kind = "MaxLength" THEN MaxLengthOn(names, f.max)
    ELSE IF f.kind = "NumericRange" THEN NumericRangeOn(names, f.min, f.max)
    ELSE IF f.kind = "Min" THEN NumericMinOn(names, f.min)
    ELSE IF f.kind = "Max" THEN NumericMaxOn(names, f.max)
    ELSE IF f.kind = "Positive" THEN PositiveOn(names)
    ELSE NonNegativeOn(names)

(***************************************************************************)
(* MemoryStore by its steps, for goroutines whose calls overlap            *)
(* (internal/store/memory/memory_store.go).  ms.mu is the record           *)
(* [writer, readers]: the goroutine that holds the write lock, if any, and *)
(* those that hold the read lock.                                          *)
(***************************************************************************)
NewRWMutex == [writer |-> Nil, readers |-> {}]

\* the methods that take ms.mu.Lock(); Get and Scan take ms.mu.RLock()
Locks(op) == op \in {"Put", "Delete", "Close"}

\* mu.Lock() returns
CanLock(mu) == mu.writer = Nil /\ mu.readers = {}

\* CanRLock that lets a reader in while a writer holds the lock
CanRLock_DespiteWriter(mu) == TRUE

\* mu.RLock() returns
CanRLock(mu) == mu.writer = Nil

\* the lock after g's Lock() or RLock()
Locked(mu, g, op) ==
    IF Locks(op) THEN [mu EXCEPT !.writer = Some(g)]
    ELSE [mu EXCEPT !.readers = @ \cup {g}]

\* the lock after g's deferred Unlock() or RUnlock()
Unlocked(mu, g, op) ==
    IF Locks(op) THEN [mu EXCEPT !.writer = Nil]
    ELSE [mu EXCEPT !.readers = @ \ {g}]

\* copy(dst, src) after its first n bytes
CopyUpTo(dst, src, n) == Concat(Take(src, n), Drop(dst, n))

\* the frame of a call on the store: its arguments, where it is (pc), ms.data
\* as it was when the call took the lock (seen), the slices of the copy in
\* progress (src, local) with the bytes copied so far (i), the keys Scan has
\* yet to visit (rest), the key it is at (cur) and its result map, and what
\* the call returns (ret).  `clean` says that no Put or Delete of the key
\* and no Close has overlapped the call, `expected` is the value a Get is
\* to find: that of a Put of its key which had returned when the Get began.
MemFrame(op, key, value, pc, clean, expected) ==
    [op |-> op, key |-> key, value |-> value, pc |-> pc, seen |-> Nil,
     src |-> <<>>, local |-> <<>>, i |-> 0, rest |-> {}, cur |-> <<>>,
     result |-> <<>>, clean |-> clean, expected |-> expected,
     ret |-> Result(Nil, FALSE, Nil, Nil)]

NoMemFrame == MemFrame("none", <<>>, <<>>, "idle", FALSE, Nil)

\* the method as one step on the store ms
Sequential(ms, op, key, value) ==
    IF op = "Get" THEN MemoryStoreGet(ms, key)
    ELSE IF op = "Put" THEN MemoryStorePut(ms, key, value)
    ELSE IF op = "Delete" THEN MemoryStoreDelete(ms, key)
    ELSE IF op = "Scan" THEN MemoryStoreScan(ms, key)
    ELSE MemoryStoreClose(ms)

(***************************************************************************)
(* A ValidatedStore whose inner store is a ValidatedStore                  *)
(* (validation.New(basicValidated, ...), README "Layered Validation").     *)
(* f is the outer decorator and f.inner the inner one over the base        *)
(* MemoryStore; c is the call [op, key, value].  The outcome's inner is    *)
(* the inner decorator after the call, its innerCalls are the calls made   *)
(* on the base store, and its trace holds the outer layer's validator      *)
(* calls followed by the inner layer's, the latter marked "inner ".        *)
(***************************************************************************)
InnerLayer(tr) ==
    [i \in DOMAIN tr |->
        [adapter |-> "inner " \o tr[i].adapter, rule |-> tr[i].rule]]

\* f.inner.Get(key), f.inner.Put(key, value), f.inner.Delete(key)
InnerMethod(g, c) ==
    IF c.op = "Get" THEN ValidatedStoreGet(g, c.key)
    ELSE IF c.op = "Put" THEN ValidatedStorePut(g, c.key, c.value[1])
    ELSE ValidatedStoreDelete(g, c.key)

\* OverValidated that calls the inner decorator before the outer validators
OverValidated_InnerFirst(f, c) ==
    LET k == StoreKeyValidatorValidate(f.keyValidator, c.key)
        v == StoreValueValidatorValidate(f.valueValidator, c.key, c.value[1])
        r == InnerMethod(f.inner, c)
        after == [f.inner EXCEPT !.inner = r.inner]
    IN  IF k.err /= Nil
        THEN Outcome(Result(Nil, FALSE, k.err, Nil), after, r.innerCalls,
                     InnerLayer(r.trace) \o TraceOf("key", k.invoked))
        ELSE IF c.op = "Put" /\ v.err /= Nil
        THEN Outcome(Result(Nil, FALSE, v.err, Nil), after, r.innerCalls,
                     InnerLayer(r.trace) \o TraceOf("key", k.invoked)
                     \o TraceOf("value", v.invoked))
        ELSE Outcome(r.ret, after, r.innerCalls,
                     InnerLayer(r.trace) \o TraceOf("key", k.invoked)
                     \o (IF c.op = "Put" THEN TraceOf("value", v.invoked)
                         ELSE <<>>))

\* ValidatedStore.Get, Put and Delete of the outer decorator
OverValidated(f, c) ==
    LET k == StoreKeyValidatorValidate(f.keyValidator, c.key)
        v == StoreValueValidatorValidate(f.valueValidator, c.key, c.value[1])
        r == InnerMethod(f.inner, c)
    IN  IF k.err /= Nil
        THEN Outcome(Result(Nil, FALSE, k.err, Nil), f.inner, <<>>,
                     TraceOf("key", k.invoked))
        ELSE IF c.op = "Put" /\ v.err /= Nil
        THEN Outcome(Result(Nil, FALSE, v.err, Nil), f.inner, <<>>,
                     TraceOf("key", k.invoked) \o TraceOf("value", v.invoked))
        ELSE Outcome(r.ret, [f.inner EXCEPT !.inner = r.inner], r.innerCalls,
                     TraceOf("key", k.invoked)
                     \o (IF c.op = "Put" THEN TraceOf("value", v.invoked)
                         ELSE <<>>)
                     \o InnerLayer(r.trace))

(***************************************************************************)
(* A call on the decorator by its steps, for callers whose calls overlap.  *)
(* What a call allocates (the Context's map, the ValidationResult, each    *)
(* ValidationError) is an object of the heap `objects` (pointer -> [owner, *)
(* type, val], owner the goroutine whose call allocated it; a pointer is   *)
(* <<arena, address>>, Nil the nil pointer); what a call                   *)
(* keeps in local variables is its frame: where it is (pc), its arguments, *)
(* ctx (the Context value, its Metadata a pointer), errs (the pointer to   *)
(* the ValidationResult), err (the pointer the last validator returned),   *)
(* i (the range loop's position), and once validation is over (decided)    *)
(* the error it ended with (verr), then what the call returns.             *)
(* The decorator f and its validators are shared and only read.            *)
(***************************************************************************)
IdleCall ==
    [pc |-> "idle", op |-> "none", key |-> <<>>, value |-> Nil,
     ctx |-> ContextValue("", Nil), errs |-> Nil, err |-> Nil, i |-> 0,
     decided |-> FALSE, verr |-> Nil, ret |-> Result(Nil, FALSE, Nil, Nil)]

\* Allocate that hands out an object of the type that is already there
Allocate_Reuse(objects, g, type, val) ==
    IF \E id \in DOMAIN objects : objects[id].type = type
    THEN [objects |-> objects,
          ptr |-> CHOOSE id \in DOMAIN objects : objects[id].type = type]
    ELSE LET id == <<g, CHOOSE n \in 1..(Cardinality(DOMAIN objects) + 1) :
                           <<g, n>> \notin DOMAIN objects>>
         IN  [objects |-> (id :> [owner |-> g, type |-> type, val |-> val])
                          @@ objects,
              ptr |-> id]

\* make(...) and &T{...}: a new object, at the first free address of the
\* arena of the goroutine that allocates
Allocate(objects, g, type, val) ==
    LET id == <<g, CHOOSE n \in 1..(Cardinality(DOMAIN objects) + 1) :
                      <<g, n>> \notin DOMAIN objects>>
    IN  [objects |-> (id :> [owner |-> g, type |-> type, val |-> val])
                     @@ objects,
         ptr |-> id]

\* the Context a validator is passed, with the entries of its map
ContextAt(objects, ctx) ==
    [Target |-> ctx.Target, Metadata |-> objects[ctx.Metadata].val]

\* the pointers a frame holds
Pointers(fr) == {fr.ctx.Metadata, fr.errs, fr.err} \ {Nil}

\* the garbage collector: the objects some frame points to
Live(objects, frames) ==
    [id \in {p \in DOMAIN objects : \E fr \in frames : p \in Pointers(fr)}
        |-> objects[id]]

\* StoreKeyValidator.Validate up to the range loop of the chain's Validate:
\* ctx := validation.NewContext("key"); errs := NewValidationResult()
EnterKeyValidator(objects, g, fr) ==
    LET m == Allocate(objects, g, "map", <<>>)
        r == Allocate(m.objects, g, "ValidationResult", NewValidationResult)
    IN  [objects |-> r.objects,
         frame |-> [fr EXCEPT !.pc = "key", !.ctx = ContextValue("key", m.ptr),
                              !.errs = r.ptr, !.err = Nil, !.i = 1]]

\* one iteration of the range loop of ValidatorChain.Validate
KeyRuleStep(f, objects, g, fr) ==
    LET validator == f.keyValidator.chain.validators[fr.i]
        err == ValidatorValidate(validator, fr.key, ContextAt(objects, fr.ctx))
    IN  IF err = Nil
        THEN [objects |-> objects, frame |-> [fr EXCEPT !.err = Nil, !.i = @ + 1]]
        ELSE LET e == Allocate(objects, g, "ValidationError", err[1])
             IN  [objects |->
                      [e.objects EXCEPT ![fr.errs].val =
                           ValidationResultAdd(@, e.objects[e.ptr].val)],
                  frame |-> [fr EXCEPT !.err = e.ptr, !.i = @ + 1]]

\* KeyValidatorReturn that lets every key pass once the store holds an entry
KeyValidatorReturn_EmptyStoreOnly(f, objects, fr) ==
    LET result == objects[fr.errs].val
    IN  IF HasErrors(result) /\ f.inner.data = Some(<<>>)
        THEN Some(Errorf(ValidationErrorError(result.Errors[1])))
        ELSE Nil

\* StoreKeyValidator.Validate after chain.Validate returned
KeyValidatorReturn(f, objects, fr) ==
    LET result == objects[fr.errs].val
    IN  IF HasErrors(result)
        THEN Some(Errorf(ValidationErrorError(result.Errors[1])))
        ELSE Nil

\* StoreValueValidator.Validate up to its range loop:
\* ctx := validation.NewContext("value").WithMetadata("key", key)
EnterValueValidator(objects, g, fr) ==
    LET c == Allocate(objects, g, "map", <<>>)
        w == Allocate(c.objects, g, "map",
                      ("key" :> fr.key) @@ c.objects[c.ptr].val)
    IN  [objects |-> w.objects,
         frame |-> [fr EXCEPT !.pc = "value",
                              !.ctx = ContextValue("value", w.ptr),
                              !.errs = Nil, !.err = Nil, !.i = 1]]

\* one iteration of the range loop of StoreValueValidator.Validate
ValueRuleStep(f, objects, g, fr) ==
    LET rule == f.valueValidator.validators[fr.i]
        err == ValueRuleValidate(rule, fr.key, fr.value[1],
                                 ContextAt(objects, fr.ctx))
    IN  IF err = Nil
        THEN [objects |-> objects, frame |-> [fr EXCEPT !.err = Nil, !.i = @ + 1]]
        ELSE LET e == Allocate(objects, g, "ValidationError", err[1])
                 verr == Some(Errorf(ValidationErrorError(e.objects[e.ptr].val)))
             IN  [objects |-> e.objects,
                  frame |-> [fr EXCEPT !.pc = "done", !.err = e.ptr,
                                       !.decided = TRUE, !.verr = verr,
                                       !.ret = Result(Nil, FALSE, verr, Nil)]]

(***************************************************************************)
(* GRPCServer (internal/server/grpc/grpc_server.go).  Get, Put and Delete  *)
(* call the store and return convertError of its error.  A status error is *)
(* its code with its message; its Error() is the text the grpc status      *)
(* package gives it.                                                       *)
(***************************************************************************)
\* strings.Contains
Contains(s, substr) ==
    \E i \in 1..(Len(s) - Len(substr) + 1) :
        SubSeq(s, i, i + Len(substr) - 1) = substr

\* status.Error(c, text)
StatusError(c, text) == [code |-> c, desc |-> text]

\* Error() of a status error
StatusErrorError(st) == "rpc error: code = " \o st.code \o " desc = " \o st.desc

convertError(err) ==
    IF err = Nil THEN Nil
    ELSE LET errMsg == err[1].text
         IN  IF \/ Contains(errMsg, "key cannot be empty")
                \/ Contains(errMsg, "key too long")
                \/ Contains(errMsg, "value too large")
             THEN Some(StatusError("InvalidArgument", errMsg))
             ELSE IF Contains(errMsg, "not found")
             THEN Some(StatusError("NotFound", errMsg))
             ELSE Some(StatusError("Unknown", errMsg))

\* the error GRPCServer.Get, Put and Delete return for what s.store returned
GRPCServerError(r) == IF r.err /= Nil THEN convertError(r.err) ELSE Nil

(***************************************************************************)
(* The state machine: one ValidatedStore over one MemoryStore, driven by   *)
(* a caller that issues one call at a time: a call runs to its return in   *)
(* one step, and the caller takes the result before the next call.  Get,   *)
(* Put and Delete are made by the GRPCServer whose store the decorator is, *)
(* Scan and Close on the decorator itself.                                 *)
(***************************************************************************)
VARIABLES
    inner,            \* the MemoryStore behind the decorator
    keyValidator,     \* ValidatedStore.keyValidator
    valueValidator,   \* ValidatedStore.valueValidator
    call,             \* the call that has just returned (op "none": none)
    ret,              \* what that call returned
    innerCalls,       \* the calls it made on the inner store
    trace,            \* the validator calls it made
    lastPut,          \* per key, the value of the last successful Put that
                      \* no successful Put or Delete of the key has replaced
    status,           \* the error the GRPCServer method returned for the call
    \* a caller of the validators package that builds and uses one chain
    arrays,             \* the backing arrays of the validator slices
    initialValidators,  \* the caller's slice, which the chain is built from
    chains,             \* the ValidatorChain objects, by pointer
    chain,              \* the caller's pointer to its chain (0: not built)
    history,            \* the validators the chain was built from and those
                        \* added to it since, in that order
    libCall,            \* the last call made on the package
    libRet,             \* what it returned
    \* goroutines that derive Contexts from one another with WithMetadata
    maps,               \* the metadata maps, by pointer
    ctxs,               \* the Context values made so far
    origin,             \* for each of them, the call that made it
    wm,                 \* per goroutine, its WithMetadata call in progress
    \* a caller that holds one ValidationError
    errors,             \* the ValidationErrors, by pointer
    errCall,            \* the last call made on the error
    errRet,             \* what it returned: a pointer or a text
    \* callers of one decorator whose calls overlap
    objects,            \* the heap of what the calls allocate
    callers,            \* per goroutine, the frame of its call
    sample,             \* a finished call, remembered with what it ended in
    \* a caller that makes validators with the factories, renames them,
    \* wraps them in conditions and runs them
    names,              \* the heap of the names the validators point to
    built,              \* the Validators and ConditionalValidators it holds
    did,                \* its last call, with what Validate returned
    \* goroutines whose calls on one MemoryStore overlap
    memory,             \* the MemoryStore: its mu and its data
    routines,           \* per goroutine, the frame of its call
    settled             \* per key, the value of a Put of the key that has
                        \* returned with no Put or Delete of the key and no
                        \* Close in progress during it or begun since

storeVars == <<inner, keyValidator, valueValidator, call, ret, innerCalls,
               trace, lastPut, status>>
chainVars == <<arrays, initialValidators, chains, chain, history, libCall,
               libRet>>
ctxVars == <<maps, ctxs, origin, wm>>
errVars == <<errors, errCall, errRet>>
concVars == <<objects, callers, sample>>
factVars == <<names, built, did>>
memVars == <<memory, routines, settled>>
vars == <<storeVars, chainVars, ctxVars, errVars, concVars, factVars,
          memVars>>

\* what the steps of each machine leave alone
outsideStore == <<chainVars, ctxVars, errVars, concVars, factVars,
    memVars>>
outsideChain == <<storeVars, ctxVars, errVars, concVars, factVars,
    memVars>>
outsideCtx == <<storeVars, chainVars, errVars, concVars, factVars,
    memVars>>
outsideErr == <<storeVars, chainVars, ctxVars, concVars, factVars,
    memVars>>
outsideFact == <<storeVars, chainVars, ctxVars, errVars, concVars, memVars>>
outsideMem == <<storeVars, chainVars, ctxVars, errVars, concVars, factVars>>
outsideConc == <<keyValidator, valueValidator, call, ret, innerCalls, trace,
                 lastPut, status, chainVars, ctxVars, errVars, factVars,
                 memVars>>

\* the most entries the inner store is filled with
MaxEntries == 2

MiB == 1024 * 1024

\* keys the callers use
Keys ==
    { <<>>,                              \* ""
      <<Run(" ", 1)>>,                   \* " "
      <<Run("a", 1)>>,                   \* "a"
      <<Run("a", 1), Run("b", 1)>>,      \* "ab"
      <<Run("a", 1024)>>,                \* 1024 characters
      <<Run("a", 1025)>>,                \* 1025 characters
      <<Run("a", 2000)>>,                \* 2000 characters
      <<Run(" ", 2000)>>,                \* 2000 spaces
      <<Run("a", 1023), Run("C3", 1), Run("A9", 1)>> }
                                         \* 1023 times "a", then U+00E9 in
                                         \* UTF-8 (bytes C3 A9): 1024
                                         \* characters in 1025 bytes

\* values the callers use
Values ==
    { <<>>,                                                    \* no bytes
      <<Run("d", 1), Run("a", 1), Run("t", 1), Run("a", 1)>>,  \* "data"
      <<Run("{", 1), Run("}", 1)>>,                            \* "{}"
      MakeBytes(100 * MiB),
      MakeBytes(100 * MiB + 1),
      MakeBytes(101 * MiB) }

\* the decorators the model constructs: the default one, one with both
\* default key rules in the other order and two value rules, and one with
\* no rule at all
Configurations ==
    { NewWithDefaultValidators(NewMemoryStore),
      NewValidatedStore(NewMemoryStore,
          NewStoreKeyValidator(<<KeyLengthValidator(DefaultKeyMaxLength),
                                 NonEmptyKeyValidator>>),
          NewStoreValueValidator(<<ValueContentValidator("value must be JSON-like"),
                                   ValueSizeValidator(ValueMaxSize)>>)),
      NewValidatedStore(NewMemoryStore, NewStoreKeyValidator(<<>>),
                        NewStoreValueValidator(<<>>)) }

Self == [inner |-> inner, keyValidator |-> keyValidator,
         valueValidator |-> valueValidator]

Call(op, key, value) == [op |-> op, key |-> key, value |-> value]
NoCall == Call("none", <<>>, Nil)

Entries(ms) == IF ms.data = Nil THEN 0 ELSE Cardinality(DOMAIN ms.data[1])

LibCall(op, value, target, validator, condition) ==
    [op |-> op, value |-> value, target |-> target, validator |-> validator,
     condition |-> condition]
NoLibCall ==
    LibCall("none", <<>>, "", ZeroValidator, Condition("false", <<>>))

\* what a call on the package returned: the error list of Validate, the
\* error of ValidateFirst and of ConditionalValidator.Validate, the chain
\* pointer of Add, with the validators the call invoked
LibRet(errs, err, invoked, vc) ==
    [errs |-> errs, err |-> err, invoked |-> invoked, chain |-> vc]
NoLibRet == LibRet(<<>>, Nil, <<>>, 0)

\* no chain is built and no call on the package was made
ChainIdle ==
    /\ arrays = <<>>
    /\ initialValidators = NilSlice
    /\ chains = <<>>
    /\ chain = 0
    /\ history = <<>>
    /\ libCall = NoLibCall
    /\ libRet = NoLibRet

\* the goroutines that call WithMetadata
Goroutines == {"g1", "g2"}

IdleFrame == Frame(ContextValue("", 0), "", 0, 0, {})

\* a goroutine's call in progress: where it is, its frame, and for the
\* properties the index of the receiver in ctxs and whether the other
\* goroutine had a call in progress at some time during this one
Progress(pc, frame, recv, overlapped) ==
    [pc |-> pc, frame |-> frame, recv |-> recv, overlapped |-> overlapped]
NoProgress == Progress("idle", IdleFrame, 0, FALSE)

\* no Context is made
CtxIdle ==
    /\ maps = <<>>
    /\ ctxs = <<>>
    /\ origin = <<>>
    /\ wm = [g \in Goroutines |-> NoProgress]

ErrCall(op, code, key, value) ==
    [op |-> op, code |-> code, key |-> key, value |-> value]

\* no ValidationError is made
ErrIdle ==
    /\ errors = <<>>
    /\ errCall = ErrCall("none", "", "", "")
    /\ errRet = [ptr |-> 0, text |-> ""]

\* a call of the caller of the factories: the method or factory (op), the
\* index in `built` of its receiver (of), its name argument, the value it
\* validated and the error Validate returned
FactCall(op, of, name, value, err) ==
    [op |-> op, of |-> of, name |-> name, value |-> value, err |-> err]

\* the caller of the factories has made nothing
FactIdle ==
    /\ names = <<>>
    /\ built = <<>>
    /\ did = FactCall("none", 0, "", AnyNil, Nil)

\* the keys and values of the goroutines that share a MemoryStore: "",
\* "k", "j" and "ab", "cd"
MemKeys == { <<>>, <<Run("k", 1)>>, <<Run("j", 1)>> }
MemValues == { <<Run("a", 1), Run("b", 1)>>, <<Run("c", 1), Run("d", 1)>> }

\* the prefixes they scan for
ScanPrefixes == { <<>>, <<Run("k", 1)>> }

\* a new MemoryStore that no goroutine has called yet
MemIdle ==
    /\ memory = [mu |-> NewRWMutex, data |-> NewMemoryStore.data]
    /\ routines = [g \in Goroutines |-> NoMemFrame]
    /\ settled = [k \in MemKeys |-> Nil]

\* no call is in progress
ConcIdle ==
    /\ objects = <<>>
    /\ callers = [g \in Goroutines |-> IdleCall]
    /\ sample = Nil

Init ==
    /\ CtxIdle /\ ErrIdle /\ ConcIdle /\ FactIdle /\ MemIdle
    /\ \E f \in Configurations :
          /\ inner = f.inner
          /\ keyValidator = f.keyValidator
          /\ valueValidator = f.valueValidator
    /\ call = NoCall
    /\ ret = Result(Nil, FALSE, Nil, Nil)
    /\ innerCalls = <<>>
    /\ trace = <<>>
    /\ lastPut = [k \in Keys |-> Nil]
    /\ status = Nil
    /\ ChainIdle

\* the part of a step every method shares
Returned(c, out) ==
    /\ call' = c
    /\ ret' = out.ret
    /\ inner' = out.inner
    /\ innerCalls' = out.innerCalls
    /\ trace' = out.trace
    /\ status' = IF c.op \in {"Get", "Put", "Delete"}
                 THEN GRPCServerError(out.ret)
                 ELSE Nil
    /\ UNCHANGED <<keyValidator, valueValidator, outsideStore>>

Get(key) ==
    /\ call = NoCall
    /\ \E out \in {ValidatedStoreGet(Self, key)} :
          /\ Returned(Call("Get", key, Nil), out)
          /\ UNCHANGED lastPut

Put(key, value) ==
    /\ call = NoCall
    /\ \E out \in {ValidatedStorePut(Self, key, value)} :
          /\ Entries(out.inner) <= MaxEntries
          /\ Returned(Call("Put", key, Some(value)), out)
          /\ lastPut' = IF out.ret.err = Nil
                        THEN [lastPut EXCEPT ![key] = Some(value)]
                        ELSE lastPut

Delete(key) ==
    /\ call = NoCall
    /\ \E out \in {ValidatedStoreDelete(Self, key)} :
          /\ Returned(Call("Delete", key, Nil), out)
          /\ lastPut' = IF out.ret.err = Nil
                        THEN [lastPut EXCEPT ![key] = Nil]
                        ELSE lastPut

Scan(prefix) ==
    /\ call = NoCall
    /\ \E out \in {ValidatedStoreScan(Self, prefix)} :
          /\ Returned(Call("Scan", prefix, Nil), out)
          /\ UNCHANGED lastPut

Close ==
    /\ call = NoCall
    /\ \E out \in {ValidatedStoreClose(Self)} :
          /\ Returned(Call("Close", <<>>, Nil), out)
          /\ UNCHANGED lastPut

\* the caller takes the result of the call and drops the call's record
Return ==
    /\ call /= NoCall
    /\ call' = NoCall
    /\ ret' = Result(Nil, FALSE, Nil, Nil)
    /\ innerCalls' = <<>>
    /\ trace' = <<>>
    /\ status' = Nil
    /\ UNCHANGED <<inner, keyValidator, valueValidator, lastPut,
                   outsideStore>>

Next ==
    \/ \E key \in Keys : Get(key)
    \/ \E key \in Keys, value \in Values : Put(key, value)
    \/ \E key \in Keys : Delete(key)
    \/ \E prefix \in Keys : Scan(prefix)
    \/ Close
    \/ Return

Spec == Init /\ [][Next]_vars

(***************************************************************************)
(* The chain machine: a caller of the validators package builds a slice of *)
(* validators by append, makes a chain of it (NewValidatorChain(s...), as  *)
(* TestValidatorChain_Add does), and then adds to the chain, validates     *)
(* with it, and runs conditional validators, one call at a time.           *)
(***************************************************************************)
\* the longest chain the caller builds
MaxChainLen == 4

\* the validators the caller uses
ChainValidators ==
    { NotEmpty, MaxLength(1), WithName(MaxLength(0), "nothing") }

\* the strings the caller validates: "", " ", "a", "abc"
ChainValues ==
    { <<>>, <<Run(" ", 1)>>, <<Run("a", 1)>>,
      <<Run("a", 1), Run("b", 1), Run("c", 1)>> }

\* the conditions of the caller's conditional validators
Conditions ==
    { Condition("equals", <<Run("a", 1), Run("b", 1), Run("c", 1)>>),
      Condition("false", <<>>),
      Condition("target", "test_field") }

\* the target of the caller's contexts
ChainTargets == {"test_field", "key"}

\* a single decorator that no call is made on
StoreIdle ==
    /\ inner = NewMemoryStore
    /\ keyValidator = NewStoreKeyValidator(DefaultKeyValidators)
    /\ valueValidator = NewStoreValueValidator(DefaultValueValidators)
    /\ call = NoCall
    /\ ret = Result(Nil, FALSE, Nil, Nil)
    /\ innerCalls = <<>>
    /\ trace = <<>>
    /\ lastPut = [k \in Keys |-> Nil]
    /\ status = Nil

ChainInit == StoreIdle /\ ChainIdle /\ CtxIdle /\ ErrIdle /\ ConcIdle /\ FactIdle /\ MemIdle

\* the slices that are live: the caller's and those of the chains
LiveSlices(sl, cs) == {sl} \cup {cs[c].validators : c \in DOMAIN cs}

\* initialValidators = append(initialValidators, v)
BuildAppend(v) ==
    /\ libCall = NoLibCall
    /\ chain = 0
    /\ initialValidators.len < MaxChainLen
    /\ \E a \in {GoAppend(arrays, initialValidators, v)} :
          /\ arrays' = Collect(a.arrays, {a.slice})
          /\ initialValidators' = a.slice
    /\ libCall' = LibCall("append", <<>>, "", v, NoLibCall.condition)
    /\ libRet' = NoLibRet
    /\ UNCHANGED <<chains, chain, history, outsideChain>>

\* chain := NewValidatorChain(initialValidators...)
Construct ==
    /\ libCall = NoLibCall
    /\ chain = 0
    /\ chains' = (1 :> NewValidatorChain(initialValidators))
    /\ chain' = 1
    /\ history' = Elems(arrays, initialValidators)
    /\ libCall' = LibCall("NewValidatorChain", <<>>, "", ZeroValidator,
                          NoLibCall.condition)
    /\ libRet' = LibRet(<<>>, Nil, <<>>, 1)
    /\ UNCHANGED <<arrays, initialValidators, outsideChain>>

\* chain.Add(v)
Add(v) ==
    /\ libCall = NoLibCall
    /\ chain /= 0
    /\ chains[chain].validators.len < MaxChainLen
    /\ \E out \in {ValidatorChainAdd(arrays, chains, chain, v)} :
          /\ arrays' = Collect(out.arrays,
                               LiveSlices(initialValidators, out.chains))
          /\ chains' = out.chains
          /\ libRet' = LibRet(<<>>, Nil, <<>>, out.ret)
    /\ history' = Append(history, v)
    /\ libCall' = LibCall("Add", <<>>, "", v, NoLibCall.condition)
    /\ UNCHANGED <<initialValidators, chain, outsideChain>>

\* chain.Validate(value, NewContext(target))
Validate(value, target) ==
    /\ libCall = NoLibCall
    /\ chain /= 0
    /\ \E run \in {ChainValidate(ChainView(arrays, chains[chain]), value,
                                  NewContext(target))} :
          libRet' = LibRet(run.errs.Errors, Nil, run.invoked, 0)
    /\ libCall' = LibCall("Validate", value, target, ZeroValidator,
                          NoLibCall.condition)
    /\ UNCHANGED <<arrays, initialValidators, chains, chain, history,
                   outsideChain>>

\* chain.ValidateFirst(value, NewContext(target))
ValidateFirst(value, target) ==
    /\ libCall = NoLibCall
    /\ chain /= 0
    /\ \E run \in {ChainValidateFirst(ChainView(arrays, chains[chain]), value,
                                       NewContext(target))} :
          libRet' = LibRet(<<>>, run.err, run.invoked, 0)
    /\ libCall' = LibCall("ValidateFirst", value, target, ZeroValidator,
                          NoLibCall.condition)
    /\ UNCHANGED <<arrays, initialValidators, chains, chain, history,
                   outsideChain>>

\* NewConditionalValidator(condition, v).Validate(value,
\* NewContext("test_field"))
Conditional(condition, v, value) ==
    /\ libCall = NoLibCall
    /\ \E run \in {ConditionalValidatorValidate(
                        NewConditionalValidator(condition, v), value,
                        NewContext("test_field"))} :
          libRet' = LibRet(<<>>, run.err,
                           IF run.invoked THEN <<1>> ELSE <<>>, 0)
    /\ libCall' = LibCall("Conditional", value, "test_field", v, condition)
    /\ UNCHANGED <<arrays, initialValidators, chains, chain, history,
                   outsideChain>>

\* the caller takes the result and drops the call's record
LibReturn ==
    /\ libCall /= NoLibCall
    /\ libCall' = NoLibCall
    /\ libRet' = NoLibRet
    /\ UNCHANGED <<arrays, initialValidators, chains, chain, history,
                   outsideChain>>

ChainNext ==
    \/ \E v \in ChainValidators : BuildAppend(v)
    \/ Construct
    \/ \E v \in ChainValidators : Add(v)
    \/ \E value \in ChainValues, target \in ChainTargets :
          Validate(value, target)
    \/ \E value \in ChainValues, target \in ChainTargets :
          ValidateFirst(value, target)
    \/ \E condition \in Conditions, v \in ChainValidators,
          value \in ChainValues : Conditional(condition, v, value)
    \/ LibReturn

ChainSpec == ChainInit /\ [][ChainNext]_vars

(***************************************************************************)
(* The context machine: two goroutines derive Contexts with WithMetadata   *)
(* from the Contexts made so far, the first of which NewContext made or a  *)
(* Context literal without a map.  A call on a Context is a call on a copy *)
(* of the value; the goroutines' steps interleave.                         *)
(***************************************************************************)
\* the most Contexts the goroutines make, calls in progress included
MaxContexts == 4

MetadataKeys == {"k1", "k2"}
MetadataValues == {"v", "w"}

Origin(recv, key, value, overlapped) ==
    [recv |-> recv, key |-> key, value |-> value, overlapped |-> overlapped]

Running == {g \in Goroutines : wm[g].pc /= "idle"}

CtxInit ==
    /\ StoreIdle /\ ChainIdle /\ ErrIdle /\ ConcIdle /\ FactIdle /\ MemIdle
    /\ \/ \E n \in {NewContextOn(<<>>, "test_field")} :
             maps = n.maps /\ ctxs = <<n.ctx>>
       \/ maps = <<>> /\ ctxs = <<ContextValue("test_field", 0)>>
    /\ origin = <<Origin(0, "", "", FALSE)>>
    /\ wm = [g \in Goroutines |-> NoProgress]

\* g calls ctxs[i].WithMetadata(key, value)
WMEnter(g, i, key, value) ==
    /\ wm[g].pc = "idle"
    /\ Len(ctxs) + Cardinality(Running) < MaxContexts
    /\ \E e \in {WithMetadataEnter(maps, ctxs[i], key, value)} :
          /\ maps' = e.maps
          /\ wm' = [h \in Goroutines |->
                       IF h = g
                       THEN Progress("range", e.frame, i, Running /= {})
                       ELSE IF wm[h].pc /= "idle"
                       THEN [wm[h] EXCEPT !.overlapped = TRUE]
                       ELSE wm[h]]
    /\ UNCHANGED <<ctxs, origin, outsideCtx>>

\* g's range loop visits k
WMCopy(g, k) ==
    /\ wm[g].pc = "range"
    /\ k \in wm[g].frame.todo
    /\ \E c \in {WithMetadataCopy(maps, wm[g].frame, k)} :
          /\ maps' = c.maps
          /\ wm' = [wm EXCEPT ![g].frame = c.frame]
    /\ UNCHANGED <<ctxs, origin, outsideCtx>>

\* g's range loop is over; g writes the new pair
WMSet(g) ==
    /\ wm[g].pc = "range"
    /\ wm[g].frame.todo = {}
    /\ maps' = WithMetadataSet(maps, wm[g].frame)
    /\ wm' = [wm EXCEPT ![g].pc = "return"]
    /\ UNCHANGED <<ctxs, origin, outsideCtx>>

\* g returns the new Context, which its caller keeps
WMReturn(g) ==
    /\ wm[g].pc = "return"
    /\ ctxs' = Append(ctxs, WithMetadataReturn(wm[g].frame))
    /\ origin' = Append(origin, Origin(wm[g].recv, wm[g].frame.key,
                                        wm[g].frame.value, wm[g].overlapped))
    /\ wm' = [wm EXCEPT ![g] = NoProgress]
    /\ UNCHANGED <<maps, outsideCtx>>

CtxNext ==
    \/ \E g \in Goroutines, i \in 1..Len(ctxs), key \in MetadataKeys,
          value \in MetadataValues : WMEnter(g, i, key, value)
    \/ \E g \in Goroutines, k \in MetadataKeys : WMCopy(g, k)
    \/ \E g \in Goroutines : WMSet(g)
    \/ \E g \in Goroutines : WMReturn(g)

CtxSpec == CtxInit /\ [][CtxNext]_vars

(***************************************************************************)
(* The error machine: a caller holds the pointer (1) to one                *)
(* ValidationError, which NewValidationError made or which it wrote as a   *)
(* literal without a message (as TestValidationError_Error does), and      *)
(* calls WithCode, WithMetadata and Error on it.                           *)
(***************************************************************************)
\* the values the error is made for: nil, "test", -5
ErrValues ==
    { AnyNil,
      AnyString(<<Run("t", 1), Run("e", 1), Run("s", 1), Run("t", 1)>>),
      AnyInt(-5) }

ErrMessages == {"", "Custom validation message"}

ErrCodes == {"not-empty", "max-length"}

ErrInit ==
    /\ StoreIdle /\ ChainIdle /\ CtxIdle /\ ConcIdle /\ FactIdle /\ MemIdle
    /\ \E target \in ChainTargets, value \in ErrValues :
          \/ \E message \in ErrMessages :
                errors = <<NewValidationError(target, value, message)>>
          \/ errors = <<[Target |-> target, Value |-> value,
                       ErrorData |-> NewErrorData(errType, defaultCode, Nil)]>>
    /\ errCall = ErrCall("none", "", "", "")
    /\ errRet = [ptr |-> 0, text |-> ""]

\* the caller's error.WithCode(code)
WithCode(code) ==
    /\ \E out \in {ValidationErrorWithCodeOn(errors, 1, code)} :
          /\ errors' = out.errs
          /\ errRet' = [ptr |-> out.ret, text |-> ""]
    /\ errCall' = ErrCall("WithCode", code, "", "")
    /\ UNCHANGED outsideErr

\* the caller's error.WithMetadata(key, value)
WithMetadata(key, value) ==
    /\ \E out \in {ValidationErrorWithMetadataOn(errors, 1, key, value)} :
          /\ errors' = out.errs
          /\ errRet' = [ptr |-> out.ret, text |-> ""]
    /\ errCall' = ErrCall("WithMetadata", "", key, value)
    /\ UNCHANGED outsideErr

\* the caller's error.Error()
Error ==
    /\ errRet' = [ptr |-> 0, text |-> ValidationErrorError(errors[1])]
    /\ errCall' = ErrCall("Error", "", "", "")
    /\ UNCHANGED <<errors, outsideErr>>

ErrNext ==
    \/ \E code \in ErrCodes : WithCode(code)
    \/ \E key \in MetadataKeys, value \in MetadataValues :
          WithMetadata(key, value)
    \/ Error

ErrSpec == ErrInit /\ [][ErrNext]_vars

(***************************************************************************)
(* The concurrent callers: two goroutines call Put and Get on one          *)
(* decorator without any locking of their own.  A call advances by the     *)
(* steps above, and the steps of the two calls interleave; the inner       *)
(* store runs each of its methods under its mutex, so the inner call is    *)
(* one step.                                                               *)
(***************************************************************************)
\* the keys of the concurrent callers: "", "a" and 1025 times "a"
ConcKeys == { <<>>, <<Run("a", 1)>>, <<Run("a", 1025)>> }

\* their values: "data" and one byte more than 100 MiB
ConcValues ==
    { <<Run("d", 1), Run("a", 1), Run("t", 1), Run("a", 1)>>,
      MakeBytes(100 * MiB + 1) }

\* h is between the entry of its call and the call's result
MidCall(h) == callers[h].pc \in {"key", "value", "inner"}

ConcInit ==
    /\ ChainIdle /\ CtxIdle /\ ErrIdle /\ ConcIdle /\ FactIdle /\ MemIdle
    /\ \E f \in Configurations :
          /\ inner = f.inner
          /\ keyValidator = f.keyValidator
          /\ valueValidator = f.valueValidator
    /\ call = NoCall
    /\ ret = Result(Nil, FALSE, Nil, Nil)
    /\ innerCalls = <<>>
    /\ trace = <<>>
    /\ lastPut = [k \in Keys |-> Nil]
    /\ status = Nil

\* g's step leaves the heap objs and g's frame fr; what no frame points to
\* any more is collected
Stepped(g, objs, fr) ==
    /\ objects' = Live(objs, {fr} \cup {callers[h] : h \in Goroutines \ {g}})
    /\ callers' = [callers EXCEPT ![g] = fr]

\* g calls f.Put(key, value[1]) or f.Get(key) and enters the key validator
Begin(g, op, key, value) ==
    /\ callers[g].pc = "idle"
    /\ \E e \in {EnterKeyValidator(objects, g,
                     [IdleCall EXCEPT !.op = op, !.key = key,
                                      !.value = value])} :
          Stepped(g, e.objects, e.frame)
    /\ UNCHANGED <<inner, sample, outsideConc>>

\* the next key rule runs
KeyRule(g) ==
    /\ callers[g].pc = "key"
    /\ callers[g].i <= Len(keyValidator.chain.validators)
    /\ \E e \in {KeyRuleStep(Self, objects, g, callers[g])} :
          Stepped(g, e.objects, e.frame)
    /\ UNCHANGED <<inner, sample, outsideConc>>

\* the key validator returns: the call returns its error, or goes on to
\* the value validator (Put) or to the inner store (Get)
KeyDone(g) ==
    /\ callers[g].pc = "key"
    /\ callers[g].i > Len(keyValidator.chain.validators)
    /\ \E verr \in {KeyValidatorReturn(Self, objects, callers[g])} :
          IF verr /= Nil
          THEN Stepped(g, objects,
                   [callers[g] EXCEPT !.pc = "done", !.decided = TRUE,
                                      !.verr = verr,
                                      !.ret = Result(Nil, FALSE, verr, Nil)])
          ELSE IF callers[g].op = "Get"
          THEN Stepped(g, objects,
                   [callers[g] EXCEPT !.pc = "inner", !.decided = TRUE])
          ELSE \E e \in {EnterValueValidator(objects, g, callers[g])} :
                  Stepped(g, e.objects, e.frame)
    /\ UNCHANGED <<inner, sample, outsideConc>>

\* the next value rule runs
ValueRule(g) ==
    /\ callers[g].pc = "value"
    /\ callers[g].i <= Len(valueValidator.validators)
    /\ \E e \in {ValueRuleStep(Self, objects, g, callers[g])} :
          Stepped(g, e.objects, e.frame)
    /\ UNCHANGED <<inner, sample, outsideConc>>

\* validation passed: return f.inner.Put(key, value) or f.inner.Get(key)
Delegate(g) ==
    /\ \/ callers[g].pc = "inner"
       \/ /\ callers[g].pc = "value"
          /\ callers[g].i > Len(valueValidator.validators)
    /\ \E r \in {IF callers[g].op = "Put"
                 THEN MemoryStorePut(inner, callers[g].key, callers[g].value[1])
                 ELSE MemoryStoreGet(inner, callers[g].key)} :
          /\ inner' = r.store
          /\ Stepped(g, objects,
                 [callers[g] EXCEPT !.pc = "done", !.decided = TRUE,
                                    !.ret = r.ret])
    /\ UNCHANGED <<sample, outsideConc>>

\* g takes the result.  One finished call is remembered with the error
\* its validation ended with: one that returns to an empty store while no
\* other call is in progress
Finish(g, keep) ==
    /\ callers[g].pc = "done"
    /\ Stepped(g, objects, IdleCall)
    /\ sample' = IF /\ keep /\ sample = Nil /\ Entries(inner) = 0
                    /\ \A h \in Goroutines \ {g} : callers[h].pc = "idle"
                 THEN Some([op |-> callers[g].op, key |-> callers[g].key,
                            value |-> callers[g].value,
                            verr |-> callers[g].verr])
                 ELSE sample
    /\ UNCHANGED <<inner, outsideConc>>

ConcNext ==
    \/ \E g \in Goroutines, key \in ConcKeys, value \in ConcValues :
          Begin(g, "Put", key, Some(value))
    \/ \E g \in Goroutines, key \in ConcKeys : Begin(g, "Get", key, Nil)
    \/ \E g \in Goroutines : KeyRule(g)
    \/ \E g \in Goroutines : KeyDone(g)
    \/ \E g \in Goroutines : ValueRule(g)
    \/ \E g \in Goroutines : Delegate(g)
    \/ \E g \in Goroutines, keep \in BOOLEAN : Finish(g, keep)

ConcSpec == ConcInit /\ [][ConcNext]_vars

(***************************************************************************)
(* The layered machine: one decorator over another over one MemoryStore,   *)
(* driven by a caller that issues one Get, Put or Delete at a time.  Here  *)
(* `inner` is the inner decorator, keyValidator and valueValidator are the *)
(* outer decorator's.                                                      *)
(***************************************************************************)
\* the keys of the layered caller: "", "a", "ab", 1025 times "a"
LayerKeys ==
    { <<>>, <<Run("a", 1)>>, <<Run("a", 1), Run("b", 1)>>, <<Run("a", 1025)>> }

\* its values: "data", "{}", one byte more than 100 MiB
LayerValues ==
    { <<Run("d", 1), Run("a", 1), Run("t", 1), Run("a", 1)>>,
      <<Run("{", 1), Run("}", 1)>>,
      MakeBytes(100 * MiB + 1) }

\* the outer decorators: the default rules, and a domain layer that takes
\* one-byte keys and JSON-like values
OuterLayers ==
    { NewWithDefaultValidators(NewMemoryStore),
      NewValidatedStore(NewMemoryStore,
          NewStoreKeyValidator(<<WithName(MaxLength(1), "short-key")>>),
          NewStoreValueValidator(<<ValueContentValidator("value must be JSON-like")>>)) }

LayerInit ==
    /\ ChainIdle /\ CtxIdle /\ ErrIdle /\ ConcIdle /\ FactIdle /\ MemIdle
    /\ \E outer \in OuterLayers, basicValidated \in Configurations :
          /\ inner = basicValidated
          /\ keyValidator = outer.keyValidator
          /\ valueValidator = outer.valueValidator
    /\ call = NoCall
    /\ ret = Result(Nil, FALSE, Nil, Nil)
    /\ innerCalls = <<>>
    /\ trace = <<>>
    /\ lastPut = [k \in Keys |-> Nil]
    /\ status = Nil

LayerGet(key) ==
    /\ call = NoCall
    /\ \E out \in {OverValidated(Self, Call("Get", key, Some(<<>>)))} :
          Returned(Call("Get", key, Nil), out)
    /\ UNCHANGED lastPut

LayerPut(key, value) ==
    /\ call = NoCall
    /\ \E out \in {OverValidated(Self, Call("Put", key, Some(value)))} :
          Returned(Call("Put", key, Some(value)), out)
    /\ UNCHANGED lastPut

LayerDelete(key) ==
    /\ call = NoCall
    /\ \E out \in {OverValidated(Self, Call("Delete", key, Some(<<>>)))} :
          Returned(Call("Delete", key, Nil), out)
    /\ UNCHANGED lastPut

LayerNext ==
    \/ \E key \in LayerKeys : LayerGet(key)
    \/ \E key \in LayerKeys, value \in LayerValues : LayerPut(key, value)
    \/ \E key \in LayerKeys : LayerDelete(key)
    \/ Return

LayerSpec == LayerInit /\ [][LayerNext]_vars

(***************************************************************************)
(* The caller of the factories: it makes a validator with a factory of     *)
(* string.go or numeric.go, renames it and what it made of it with         *)
(* WithName, wraps them with NewConditionalValidator and runs their        *)
(* Validate, keeping every value it was returned in `built`.               *)
(***************************************************************************)
\* the most values the caller holds
MaxBuilt == 3

StringKinds == {"NotEmpty", "Length", "MinLength", "MaxLength"}

\* the factory calls it makes
Factories ==
    { Closure("NotEmpty", 0, 0), Closure("Length", 1, 2),
      Closure("MinLength", 1, 0), Closure("MaxLength", 0, 2),
      Closure("NumericRange", 0, 1), Closure("Min", 0, 0),
      Closure("Max", 0, 1), Closure("Positive", 0, 0),
      Closure("NonNegative", 0, 0) }

\* the names it gives
GivenNames == {"first", "second"}

\* the conditions it wraps a validator in: on the target being "field" or
\* "other"
FactConditions ==
    { [kind |-> "target", arg |-> "field"], [kind |-> "target", arg |-> "other"] }

\* the values it validates: "", " ", "a", "abc" and -1, 0, 2
FactStrings ==
    { AnyString(<<>>), AnyString(<<Run(" ", 1)>>), AnyString(<<Run("a", 1)>>),
      AnyString(<<Run("a", 1), Run("b", 1), Run("c", 1)>>) }
FactNumbers == { AnyInt(-1), AnyInt(0), AnyInt(2) }

IsConditional(item) == "Condition" \in DOMAIN item

\* the Validator of a held value: itself, or the one a ConditionalValidator
\* wraps
ValidatorOf(item) == IF IsConditional(item) THEN item.Validator ELSE item

\* the values of the type T of a held value
InputsOf(item) ==
    IF ValidatorOf(item).Validate.kind \in StringKinds THEN FactStrings
    ELSE FactNumbers

\* item.Validate(value, ctx) of a held value
ItemValidate(item, value, ctx) ==
    IF IsConditional(item)
    THEN IF ConditionCall(item.Condition, value, ctx)
         THEN ClosureCall(item.Validator.Validate, value, ctx)
         ELSE Nil
    ELSE ClosureCall(item.Validate, value, ctx)

FactInit ==
    /\ StoreIdle /\ ChainIdle /\ CtxIdle /\ ErrIdle /\ ConcIdle /\ MemIdle
    /\ FactIdle

Build(f) ==
    /\ built = <<>>
    /\ LET out == FactoryCall(names, f)
       IN  /\ names' = out.names
           /\ built' = Append(built, out.ret)
           /\ did' = FactCall(f.kind, 0, "", AnyNil, Nil)
    /\ UNCHANGED outsideFact

Rename(i, name) ==
    /\ Len(built) < MaxBuilt
    /\ ~IsConditional(built[i])
    /\ LET out == WithNameOn(names, built[i], name)
       IN  /\ names' = out.names
           /\ built' = Append(built, out.ret)
           /\ did' = FactCall("WithName", i, name, AnyNil, Nil)
    /\ UNCHANGED outsideFact

Wrap(i, condition) ==
    /\ Len(built) < MaxBuilt
    /\ ~IsConditional(built[i])
    /\ built' = Append(built, NewConditionalValidator(condition, built[i]))
    /\ did' = FactCall("NewConditionalValidator", i, "", AnyNil, Nil)
    /\ UNCHANGED names
    /\ UNCHANGED outsideFact

RenameConditional(i, name) ==
    /\ Len(built) < MaxBuilt
    /\ IsConditional(built[i])
    /\ LET out == ConditionalValidatorWithNameOn(names, built[i], name)
       IN  /\ names' = out.names
           /\ built' = Append(built, out.ret)
           /\ did' = FactCall("ConditionalValidator.WithName", i, name,
                              AnyNil, Nil)
    /\ UNCHANGED outsideFact

Apply(i, value) ==
    /\ value \in InputsOf(built[i])
    /\ did' = FactCall("Validate", i, "", value,
                       ItemValidate(built[i], value, NewContext("field")))
    /\ UNCHANGED <<names, built>>
    /\ UNCHANGED outsideFact

FactNext ==
    \/ \E f \in Factories : Build(f)
    \/ \E i \in 1..Len(built), name \in GivenNames : Rename(i, name)
    \/ \E i \in 1..Len(built), condition \in FactConditions : Wrap(i, condition)
    \/ \E i \in 1..Len(built), name \in GivenNames : RenameConditional(i, name)
    \/ \E i \in 1..Len(built), value \in FactStrings \cup FactNumbers :
          Apply(i, value)

FactSpec == FactInit /\ [][FactNext]_vars

(***************************************************************************)
(* The shared MemoryStore: each goroutine calls Get, Put, Delete, Scan or  *)
(* Close, runs the method step by step and takes the result before its     *)
(* next call; the steps of the goroutines interleave.                      *)
(***************************************************************************)
MemInit ==
    /\ StoreIdle /\ ChainIdle /\ CtxIdle /\ ErrIdle /\ ConcIdle /\ FactIdle
    /\ MemIdle

\* g's call is between its start and its return
InProgress(fr) == fr.pc \notin {"idle", "returned"}

\* the call of fr changes what is stored under key
Disturbs(fr, key) ==
    fr.op = "Close" \/ (fr.op \in {"Put", "Delete"} /\ fr.key = key)

\* g's frame becomes fr; the other frames stay
Moved(g, fr) == routines' = [routines EXCEPT ![g] = fr]

\* g calls a method, which returns at once when it finds its key empty
\* (if key == "" { return ... } of Get, Put and Delete) and goes for the
\* lock otherwise
MemBegin(g, op, key, value) ==
    /\ routines[g].pc = "idle"
    /\ LET mine == MemFrame(op, key, value, "lock",
                       \A h \in Goroutines \ {g} :
                          ~(InProgress(routines[h]) /\ Disturbs(routines[h], key)),
                       IF op = "Get" THEN settled[key] ELSE Nil)
       IN  IF op \in {"Get", "Put", "Delete"} /\ key = <<>>
           THEN /\ Moved(g, [mine EXCEPT !.pc = "returned",
                        !.clean = FALSE, !.expected = Nil,
                        !.ret = Result(Nil, FALSE,
                                    Some(Errorf("key cannot be empty")), Nil)])
                /\ UNCHANGED settled
           ELSE /\ routines' =
                     [h \in Goroutines |->
                         IF h = g THEN mine
                         ELSE IF InProgress(routines[h])
                                 /\ Disturbs(mine, routines[h].key)
                         THEN [routines[h] EXCEPT !.clean = FALSE,
                                                  !.expected = Nil]
                         ELSE routines[h]]
                /\ settled' = [k \in MemKeys |->
                                  IF Disturbs(mine, k) THEN Nil ELSE settled[k]]
    /\ UNCHANGED memory
    /\ UNCHANGED outsideMem

\* ms.mu.Lock() or ms.mu.RLock() returns
MemLock(g) ==
    /\ routines[g].pc = "lock"
    /\ IF Locks(routines[g].op) THEN CanLock(memory.mu)
       ELSE CanRLock(memory.mu)
    /\ memory' = [memory EXCEPT !.mu = Locked(@, g, routines[g].op)]
    /\ Moved(g, [routines[g] EXCEPT !.pc = "locked", !.seen = memory.data])
    /\ UNCHANGED settled
    /\ UNCHANGED outsideMem

\* the method's body from the closed check to its first copy or its return
MemBody(g) ==
    /\ routines[g].pc = "locked"
    /\ LET fr == routines[g]
           closed == Result(Nil, FALSE, Some(Errorf("store is closed")), Nil)
           done == Result(Nil, FALSE, Nil, Nil)
       IN  IF fr.op = "Close"
           THEN /\ memory' = [memory EXCEPT !.data = Nil]
                /\ Moved(g, [fr EXCEPT !.pc = "unlock", !.ret = done])
           ELSE IF memory.data = Nil
           THEN /\ Moved(g, [fr EXCEPT !.pc = "unlock", !.ret = closed])
                /\ UNCHANGED memory
           ELSE IF fr.op = "Get"
           THEN /\ IF fr.key \notin DOMAIN memory.data[1]
                   THEN Moved(g, [fr EXCEPT !.pc = "unlock", !.ret = done])
                   ELSE Moved(g, [fr EXCEPT !.pc = "copy",
                            !.src = memory.data[1][fr.key],
                            !.local = MakeBytes(StrLen(memory.data[1][fr.key])),
                            !.i = 0])
                /\ UNCHANGED memory
           ELSE IF fr.op = "Put"
           THEN /\ Moved(g, [fr EXCEPT !.pc = "copy", !.src = fr.value,
                        !.local = MakeBytes(StrLen(fr.value)), !.i = 0])
                /\ UNCHANGED memory
           ELSE IF fr.op = "Delete"
           THEN /\ memory' = [memory EXCEPT !.data =
                       Some([k \in DOMAIN memory.data[1] \ {fr.key}
                                |-> memory.data[1][k]])]
                /\ Moved(g, [fr EXCEPT !.pc = "unlock", !.ret = done])
           ELSE /\ Moved(g, [fr EXCEPT !.pc = "range", !.result = <<>>,
                        !.rest = DOMAIN memory.data[1]])
                /\ UNCHANGED memory
    /\ UNCHANGED settled
    /\ UNCHANGED outsideMem

\* copy(dst, src): one more byte
MemCopy(g) ==
    /\ routines[g].pc = "copy"
    /\ routines[g].i < Min(StrLen(routines[g].local), StrLen(routines[g].src))
    /\ Moved(g, [routines[g] EXCEPT !.i = @ + 1,
             !.local = CopyUpTo(@, routines[g].src, routines[g].i + 1)])
    /\ UNCHANGED <<memory, settled>>
    /\ UNCHANGED outsideMem

\* what follows the copy: return result, true, nil of Get;
\* ms.data[key] = valueCopy of Put; result[key] = valueCopy of Scan
MemCopied(g) ==
    /\ routines[g].pc = "copy"
    /\ routines[g].i = Min(StrLen(routines[g].local), StrLen(routines[g].src))
    /\ LET fr == routines[g]
       IN  IF fr.op = "Get"
           THEN /\ Moved(g, [fr EXCEPT !.pc = "unlock",
                        !.ret = Result(Some(fr.local), TRUE, Nil, Nil)])
                /\ UNCHANGED memory
           ELSE IF fr.op = "Put"
           THEN /\ memory' = [memory EXCEPT !.data =
                       Some((fr.key :> fr.local) @@ memory.data[1])]
                /\ Moved(g, [fr EXCEPT !.pc = "unlock",
                        !.ret = Result(Nil, FALSE, Nil, Nil)])
           ELSE /\ Moved(g, [fr EXCEPT !.pc = "range",
                        !.result = (fr.cur :> fr.local) @@ fr.result])
                /\ UNCHANGED memory
    /\ UNCHANGED settled
    /\ UNCHANGED outsideMem

\* for key, value := range ms.data of Scan: the next key in any order, or
\* the end of the loop
MemRange(g) ==
    /\ routines[g].pc = "range"
    /\ LET fr == routines[g]
       IN  IF fr.rest = {}
           THEN Moved(g, [fr EXCEPT !.pc = "unlock",
                    !.ret = Result(Nil, FALSE, Nil, Some(fr.result))])
           ELSE \E k \in fr.rest :
                   IF HasPrefix(k, fr.key)
                   THEN Moved(g, [fr EXCEPT !.rest = @ \ {k}, !.cur = k,
                            !.pc = "copy", !.src = memory.data[1][k],
                            !.local = MakeBytes(StrLen(memory.data[1][k])),
                            !.i = 0])
                   ELSE Moved(g, [fr EXCEPT !.rest = @ \ {k}])
    /\ UNCHANGED <<memory, settled>>
    /\ UNCHANGED outsideMem

\* the deferred Unlock() or RUnlock(), and the return
MemUnlock(g) ==
    /\ routines[g].pc = "unlock"
    /\ memory' = [memory EXCEPT !.mu = Unlocked(@, g, routines[g].op)]
    /\ Moved(g, [routines[g] EXCEPT !.pc = "returned"])
    /\ settled' = IF routines[g].op = "Put" /\ routines[g].ret.err = Nil
                  THEN [settled EXCEPT ![routines[g].key] =
                           IF routines[g].clean THEN Some(routines[g].value)
                           ELSE Nil]
                  ELSE settled
    /\ UNCHANGED outsideMem

\* the caller takes the result
MemFinish(g) ==
    /\ routines[g].pc = "returned"
    /\ Moved(g, NoMemFrame)
    /\ UNCHANGED <<memory, settled>>
    /\ UNCHANGED outsideMem

MemNext ==
    \E g \in Goroutines :
        \/ \E key \in MemKeys : MemBegin(g, "Get", key, <<>>)
        \/ \E key \in MemKeys, value \in MemValues : MemBegin(g, "Put", key, value)
        \/ \E key \in MemKeys : MemBegin(g, "Delete", key, <<>>)
        \/ \E prefix \in ScanPrefixes : MemBegin(g, "Scan", prefix, <<>>)
        \/ MemBegin(g, "Close", <<>>, <<>>)
        \/ MemLock(g)
        \/ MemBody(g)
        \/ MemCopy(g)
        \/ MemCopied(g)
        \/ MemRange(g)
        \/ MemUnlock(g)
        \/ MemFinish(g)

MemSpec == MemInit /\ [][MemNext]_vars

(***************************************************************************)
(* Vocabulary of the properties                                            *)
(***************************************************************************)
Validated == {"Get", "Put", "Delete"}

IsDefault ==
    /\ keyValidator = NewStoreKeyValidator(DefaultKeyValidators)
    /\ valueValidator = NewStoreValueValidator(DefaultValueValidators)

\* the indices of the key rules / value rules that the input violates
KeyViolations(key) ==
    { i \in 1..Len(keyValidator.chain.validators) :
        ValidatorValidate(keyValidator.chain.validators[i], key,
                          NewContext("key")) /= Nil }

ValueViolations(key, value) ==
    { i \in 1..Len(valueValidator.validators) :
        ValueRuleValidate(valueValidator.validators[i], key, value,
            ContextWithMetadata(NewContext("value"), "key", key)) /= Nil }

Least(S) == CHOOSE i \in S : \A j \in S : i <= j

KeyFails(c) == KeyViolations(c.key) /= {}
ValueFails(c) == c.op = "Put" /\ ValueViolations(c.key, c.value[1]) /= {}

\* the call c is one a validator of its path fails
Rejected(c) == c.op \in Validated /\ (KeyFails(c) \/ ValueFails(c))
Accepted(c) == c.op \in Validated /\ ~KeyFails(c) /\ ~ValueFails(c)

\* the rule indices in the trace that belong to one adapter, in call order
RulesOf(adapter) ==
    LET at == SelectSeq(trace, LAMBDA e : e.adapter = adapter /\ e.rule > 0)
    IN  [i \in 1..Len(at) |-> at[i].rule]

AdapterCalls(adapter) ==
    Len(SelectSeq(trace, LAMBDA e : e.adapter = adapter /\ e.rule = 0))

\* what the inner store does when the call c is made on it directly
Direct(ms, c) ==
    IF c.op = "Get" THEN MemoryStoreGet(ms, c.key)
    ELSE IF c.op = "Put" THEN MemoryStorePut(ms, c.key, c.value[1])
    ELSE IF c.op = "Delete" THEN MemoryStoreDelete(ms, c.key)
    ELSE IF c.op = "Scan" THEN MemoryStoreScan(ms, c.key)
    ELSE MemoryStoreClose(ms)

\* the ValidationError of the first rule the call c violates: key rules in
\* chain order, then value rules in list order
FirstViolation(c) ==
    IF KeyFails(c)
    THEN ValidatorValidate(
             keyValidator.chain.validators[Least(KeyViolations(c.key))],
             c.key, NewContext("key"))[1]
    ELSE ValueRuleValidate(
             valueValidator.validators[Least(ValueViolations(c.key, c.value[1]))],
             c.key, c.value[1],
             ContextWithMetadata(NewContext("value"), "key", c.key))[1]

UpTo(n) == [i \in 1..n |-> i]

\* the number of characters of a UTF-8 string (utf8.RuneCountInString): its
\* bytes that are not continuation bytes
IsContinuationByte(c) == c \in {"A9"}
RECURSIVE RuneCount(_)
RuneCount(s) ==
    IF s = <<>> THEN 0
    ELSE (IF IsContinuationByte(s[1].c) THEN 0 ELSE s[1].n) + RuneCount(Tail(s))

\* the call made the decorator hand the operation to the inner store
Delegated == innerCalls /= <<>>

\* the code an error value offers: its Code when it has one (errors.Error)
CarriedCode(err) ==
    IF err = Nil THEN ""
    ELSE IF "ErrorData" \in DOMAIN err[1] THEN err[1].ErrorData.Code
    ELSE ""

EmptyKeyPut == call.op = "Put" /\ call.key = <<>>
LongKeyPut ==
    call.op = "Put" /\ StrLen(call.key) = 2000 /\ TrimSpace(call.key) /= <<>>
LargeValuePut ==
    call.op = "Put" /\ ~KeyFails(call) /\ StrLen(call.value[1]) = 101 * MiB

(***************************************************************************)
(* C1: a Get, Put or Delete whose key validator or (for Put) value         *)
(* validator fails makes no call on the inner store and leaves the inner   *)
(* store's contents as they were before the call.                          *)
(***************************************************************************)
C1_RejectedLeavesInnerUntouched ==
    [][Rejected(call') => (innerCalls' = <<>> /\ inner' = inner)]_vars

\* a Put with a valid key and a failing value was rejected while the inner
\* store held entries
C1_Witness ==
    /\ call.op = "Put" /\ ~KeyFails(call) /\ ValueFails(call)
    /\ Entries(inner) > 0
    /\ ret.err /= Nil

(***************************************************************************)
(* C2: in a Put the key validator runs first, the value validator runs     *)
(* after it and only when the key passed; when the key fails the value     *)
(* validator is not invoked in that call.                                  *)
(***************************************************************************)
C2_KeyBeforeValue ==
    call.op = "Put" =>
        /\ trace /= <<>> /\ trace[1] = [adapter |-> "key", rule |-> 0]
        /\ AdapterCalls("key") = 1
        /\ \A i, j \in 1..Len(trace) :
              (trace[i].adapter = "key" /\ trace[j].adapter = "value") => i < j
        /\ AdapterCalls("value") = IF KeyFails(call) THEN 0 ELSE 1
        /\ KeyFails(call) => \A i \in 1..Len(trace) : trace[i].adapter = "key"

\* a Put whose key and value are both invalid has returned
C2_Witness ==
    /\ call.op = "Put" /\ KeyFails(call)
    /\ ValueViolations(call.key, call.value[1]) /= {}

(***************************************************************************)
(* C3: a Get, Put or Delete whose inputs pass validation makes exactly one *)
(* call on the inner store, the matching operation with the same           *)
(* arguments, returns exactly what that call returned (its error           *)
(* included), and leaves the inner store as the direct call would.         *)
(***************************************************************************)
C3_AcceptedIsDelegated ==
    [][Accepted(call') =>
          LET d == Direct(inner, call')
          IN  /\ innerCalls' = <<InnerCall(call'.op, call'.key, call'.value, d.ret)>>
              /\ ret' = d.ret
              /\ inner' = d.store]_vars

\* a valid Get was delegated and came back with the inner store's error
C3_Witness ==
    /\ call.op = "Get" /\ Accepted(call)
    /\ Len(innerCalls) = 1
    /\ ret.err = Some(Errorf("store is closed"))

(***************************************************************************)
(* C4: a rejected operation returns the error of the first violated rule,  *)
(* key rules taken in the order of the key chain and then value rules in   *)
(* list order; with key and value both invalid it is the key rule's.       *)
(***************************************************************************)
C4_FirstViolatedRuleError ==
    Rejected(call) =>
        ret.err = Some(Errorf(ValidationErrorError(FirstViolation(call))))

\* a Put was rejected whose key violates two key rules and whose value is
\* invalid as well
C4_Witness ==
    /\ call.op = "Put"
    /\ Cardinality(KeyViolations(call.key)) >= 2
    /\ ValueViolations(call.key, call.value[1]) /= {}
    /\ ret.err /= Nil

(***************************************************************************)
(* C5: the key adapter is fail-fast; key validators are invoked in         *)
(* add-order and, once one of them fails, no later validator of the chain  *)
(* is invoked for that key.                                                *)
(***************************************************************************)
C5_KeyAdapterFailFast ==
    call.op \in Validated =>
        RulesOf("key") =
            UpTo(IF KeyFails(call) THEN Least(KeyViolations(call.key))
                 ELSE Len(keyValidator.chain.validators))

(***************************************************************************)
(* What StoreKeyValidator.Validate does instead: it runs the chain's       *)
(* collect-all Validate, so every key validator of the chain is invoked    *)
(* once, in add-order, also after one of them failed, and the error of the *)
(* first failing one is returned.                                          *)
(***************************************************************************)
KeyAdapterRunsWholeChain ==
    call.op \in Validated =>
        /\ RulesOf("key") = UpTo(Len(keyValidator.chain.validators))
        /\ KeyFails(call) =>
              ret.err = Some(Errorf(ValidationErrorError(FirstViolation(call))))

\* a key was validated whose first violated rule has rules after it, and
\* they were invoked
KeyRulesRunAfterFailure ==
    /\ call.op \in Validated /\ KeyFails(call)
    /\ Least(KeyViolations(call.key)) < Len(keyValidator.chain.validators)
    /\ Len(RulesOf("key")) > Least(KeyViolations(call.key))

C8_RejectedGet ==
    (call.op = "Get" /\ KeyFails(call)) =>
        /\ ret.value = Nil
        /\ ret.found = FALSE
        /\ ret.err = Some(Errorf(ValidationErrorError(FirstViolation(call))))
        /\ innerCalls = <<>>

\* a Get was rejected while the inner store held entries
C8_Witness ==
    call.op = "Get" /\ KeyFails(call) /\ ret.err /= Nil /\ Entries(inner) > 0

(***************************************************************************)
(* C9: the value adapter invokes its rules in list order and stops at the  *)
(* first one that fails; with an empty rule list every value passes.       *)
(***************************************************************************)
C9_ValueRulesShortCircuit ==
    (call.op = "Put" /\ ~KeyFails(call)) =>
        LET viol == ValueViolations(call.key, call.value[1])
            n == Len(valueValidator.validators)
        IN  /\ RulesOf("value") = UpTo(IF viol = {} THEN n ELSE Least(viol))
            /\ (viol = {}) <=> (Len(innerCalls) = 1)
            /\ n = 0 => Len(innerCalls) = 1

\* a value that violates two rules was validated: the second rule was not
\* invoked
C9_Witness ==
    /\ call.op = "Put" /\ ~KeyFails(call)
    /\ Cardinality(ValueViolations(call.key, call.value[1])) >= 2
    /\ Len(RulesOf("value")) = 1

(***************************************************************************)
(* C10: on a default-configured store over an open MemoryStore, a Get(k)   *)
(* that follows a successful Put(k, v), with no successful Put or Delete   *)
(* of k since, returns (v, true, nil); rejected operations in between do   *)
(* not change that.                                                        *)
(***************************************************************************)
C10_GetAfterPut ==
    (IsDefault /\ call.op = "Get" /\ inner.data /= Nil
     /\ lastPut[call.key] /= Nil) =>
        ret = Result(lastPut[call.key], TRUE, Nil, Nil)

\* Get returned "data" from a default store that holds two entries
C10_Witness ==
    /\ IsDefault /\ call.op = "Get" /\ Entries(inner) = 2
    /\ ret = Result(Some(<<Run("d", 1), Run("a", 1), Run("t", 1), Run("a", 1)>>),
                    TRUE, Nil, Nil)

TheChain == Elems(arrays, chains[chain].validators)

\* the context of the last call
CallCtx == NewContext(libCall.target)

\* the indices of the validators of vs that fail on the value
Failing(vs, value, ctx) ==
    { i \in 1..Len(vs) : ValidatorValidate(vs[i], value, ctx) /= Nil }

RECURSIVE Ascending(_)
Ascending(S) ==
    IF S = {} THEN <<>> ELSE <<Least(S)>> \o Ascending(S \ {Least(S)})

\* the errors of the failing validators of vs, in the order of vs
ErrorsOf(vs, value, ctx) ==
    LET asc == Ascending(Failing(vs, value, ctx))
    IN  [i \in 1..Len(asc) |-> ValidatorValidate(vs[asc[i]], value, ctx)[1]]

\* the validators the last call invoked, in call order
Visited == [i \in 1..Len(libRet.invoked) |-> TheChain[libRet.invoked[i]]]

IsPrefix(p, q) == Len(p) <= Len(q) /\ SubSeq(q, 1, Len(p)) = p

(***************************************************************************)
(* C14: ValidatorChain.Validate invokes every validator of the chain       *)
(* exactly once, in add-order, whether or not an earlier one failed, and   *)
(* the error list it returns holds exactly the errors of the failing       *)
(* validators, in that order.                                              *)
(***************************************************************************)
C14_ValidateRunsAllInOrder ==
    libCall.op = "Validate" =>
        /\ libRet.invoked = UpTo(Len(TheChain))
        /\ libRet.errs = ErrorsOf(TheChain, libCall.value, CallCtx)

\* Validate ran a chain [v1, v2, v3] on a value that fails v1 and v3 only
C14_Witness ==
    /\ libCall.op = "Validate" /\ Len(TheChain) = 3
    /\ Failing(TheChain, libCall.value, CallCtx) = {1, 3}
    /\ Len(libRet.errs) = 2

(***************************************************************************)
(* C15: ValidatorChain.ValidateFirst invokes the validators in add-order   *)
(* up to and including the earliest one that fails, returns that one's     *)
(* error and invokes none placed after it; it returns nil only when every  *)
(* validator passes (all of them then invoked).                            *)
(***************************************************************************)
C15_ValidateFirstShortCircuits ==
    libCall.op = "ValidateFirst" =>
        LET F == Failing(TheChain, libCall.value, CallCtx)
        IN  /\ libRet.invoked = UpTo(IF F = {} THEN Len(TheChain) ELSE Least(F))
            /\ F /= {} =>
                  libRet.err = ValidatorValidate(TheChain[Least(F)],
                                                 libCall.value, CallCtx)
            /\ (libRet.err = Nil) <=> (F = {})

\* ValidateFirst ran a chain [v1, v2, v3] on a value that fails v1 and v3:
\* only v1 was invoked
C15_Witness ==
    /\ libCall.op = "ValidateFirst" /\ Len(TheChain) = 3
    /\ Failing(TheChain, libCall.value, CallCtx) = {1, 3}
    /\ libRet.invoked = <<1>> /\ libRet.err /= Nil

(***************************************************************************)
(* C16: ConditionalValidator.Validate invokes the wrapped validator if and *)
(* only if the condition holds of (value, ctx), and then returns what it   *)
(* returns; when the condition is false it returns nil without invoking    *)
(* the validator, also when the validator would have failed.               *)
(***************************************************************************)
C16_ConditionGatesValidator ==
    libCall.op = "Conditional" =>
        LET holds == ConditionCall(libCall.condition, libCall.value, CallCtx)
        IN  /\ (libRet.invoked /= <<>>) <=> holds
            /\ holds => libRet.err = ValidatorValidate(libCall.validator,
                                                       libCall.value, CallCtx)
            /\ ~holds => libRet.err = Nil

\* a conditional validator passed a value its condition does not hold of
\* and its validator fails on
C16_Witness ==
    /\ libCall.op = "Conditional"
    /\ ~ConditionCall(libCall.condition, libCall.value, CallCtx)
    /\ ValidatorValidate(libCall.validator, libCall.value, CallCtx) /= Nil
    /\ libRet.err = Nil /\ libRet.invoked = <<>>

(***************************************************************************)
(* C20: ValidatorChain.Add(v) changes the chain it is called on and        *)
(* returns that chain; the chain holds, in this order, the validators it   *)
(* was built from and then every validator added, so that Validate visits  *)
(* exactly these in this order and ValidateFirst a prefix of them: no Add  *)
(* removes, replaces or reorders a validator.                              *)
(***************************************************************************)
C20_AddAppendsInPlace ==
    chain /= 0 =>
        /\ TheChain = history
        /\ libCall.op = "Add" =>
              /\ libRet.chain = chain
              /\ TheChain[Len(TheChain)] = libCall.validator
        /\ libCall.op = "Validate" => Visited = history
        /\ libCall.op = "ValidateFirst" => IsPrefix(Visited, history)

\* Validate ran a chain of four validators: built from the caller's slice
\* of three, which had room for one more, and then added to in that array
C20_Witness ==
    /\ chain /= 0 /\ libCall.op = "Validate"
    /\ initialValidators.len = 3 /\ initialValidators.cap = 4
    /\ Len(TheChain) = 4
    /\ initialValidators.ptr = chains[chain].validators.ptr
    /\ Len(libRet.invoked) = 4

(***************************************************************************)
(* Vocabulary of the context properties                                    *)
(***************************************************************************)
\* the metadata of the Context c on the heap mps (none under the nil map)
MetadataOf(mps, c) == IF c.Metadata = 0 THEN <<>> ELSE mps[c.Metadata]

(***************************************************************************)
(* C17: WithMetadata(k, v) returns a new Context with the receiver's       *)
(* target whose metadata, held in a map of its own, is the receiver's with *)
(* k set to v (the new value wins over one the receiver holds under k); no *)
(* step of any WithMetadata call, of this or of the other goroutine,       *)
(* changes the metadata of a Context that exists, in size or in content.   *)
(***************************************************************************)
C17_WithMetadataCopies ==
    [][/\ \A i \in 1..Len(ctxs) :
             /\ ctxs'[i] = ctxs[i]
             /\ MetadataOf(maps', ctxs[i]) = MetadataOf(maps, ctxs[i])
       /\ Len(ctxs') > Len(ctxs) =>
             LET new == ctxs'[Len(ctxs')]
                 from == origin'[Len(ctxs')]
                 c == ctxs[from.recv]
             IN  /\ new.Target = c.Target
                 /\ MetadataOf(maps', new) =
                        (from.key :> from.value) @@ MetadataOf(maps, c)
                 /\ new.Metadata /= 0
                 /\ \A i \in 1..Len(ctxs) : ctxs[i].Metadata /= new.Metadata]_vars

\* a Context was derived from a derived Context under the key that one was
\* given, with another value, while the other goroutine had a call in
\* progress
C17_Witness ==
    \E n \in 3..Len(ctxs) :
        /\ origin[n].recv > 1
        /\ origin[n].key = origin[origin[n].recv].key
        /\ origin[n].value /= origin[origin[n].recv].value
        /\ origin[n].overlapped
        /\ MetadataOf(maps, ctxs[n])[origin[n].key] = origin[n].value

(***************************************************************************)
(* Vocabulary of the error properties                                      *)
(***************************************************************************)
\* the caller's error
TheError == errors[1]

\* how the values the error is made for read in a text
Shown(value) ==
    IF value = AnyNil THEN "<nil>"
    ELSE IF value = AnyInt(-5) THEN "-5"
    ELSE "test"

(***************************************************************************)
(* C18: WithCode and WithMetadata change the error they are called on and  *)
(* return the pointer to it: WithCode sets its code, WithMetadata writes   *)
(* one metadata entry (over the one the key had, if any), and each leaves  *)
(* the target, the value, the message, the type and all else as they      *)
(* were; so after any sequence of them the error holds the last code set   *)
(* and the last value written under each key.                              *)
(***************************************************************************)
C18_WithersMutateReceiver ==
    [][LET old == errors[1]
           new == errors'[1]
           same == /\ Len(errors') = Len(errors)
                   /\ errRet'.ptr = 1
                   /\ new.Target = old.Target
                   /\ new.Value = old.Value
                   /\ new.ErrorData.Type = old.ErrorData.Type
                   /\ new.ErrorData.Message = old.ErrorData.Message
       IN  /\ errCall'.op = "WithCode" =>
                 /\ same
                 /\ new.ErrorData.Code = errCall'.code
                 /\ new.ErrorData.Metadata = old.ErrorData.Metadata
           /\ errCall'.op = "WithMetadata" =>
                 /\ same
                 /\ new.ErrorData.Code = old.ErrorData.Code
                 /\ DOMAIN new.ErrorData.Metadata =
                        DOMAIN old.ErrorData.Metadata \cup {errCall'.key}
                 /\ new.ErrorData.Metadata[errCall'.key] = errCall'.value
                 /\ \A k \in DOMAIN old.ErrorData.Metadata \ {errCall'.key} :
                        new.ErrorData.Metadata[k] = old.ErrorData.Metadata[k]]_vars

\* WithMetadata returned the error it was called on, which holds a code
\* set earlier and an entry under each key
C18_Witness ==
    /\ errCall.op = "WithMetadata" /\ errRet.ptr = 1
    /\ TheError.ErrorData.Code = "max-length"
    /\ DOMAIN TheError.ErrorData.Metadata = MetadataKeys
    /\ TheError.ErrorData.Metadata[errCall.key] = errCall.value

AloneVerdict(fr) ==
    LET out == IF fr.op = "Put"
               THEN ValidatedStorePut(Self, fr.key, fr.value[1])
               ELSE ValidatedStoreGet(Self, fr.key)
    IN  IF out.innerCalls = <<>> THEN out.ret.err ELSE Nil

\* two calls of the same method with the same arguments
SameInput(a, b) == a.op = b.op /\ a.key = b.key /\ a.value = b.value

(***************************************************************************)
(* C12: callers may call one decorator at the same time without locking:   *)
(* the validation of every call ends as it does when the call runs alone,  *)
(* and what a call holds of Contexts, validation results and validation    *)
(* errors is what that call itself made, none of it held by another call.  *)
(***************************************************************************)
C12_ConcurrentCallsAsAlone ==
    \A g \in Goroutines :
        /\ callers[g].decided => callers[g].verr = AloneVerdict(callers[g])
        /\ \A p \in Pointers(callers[g]) :
              /\ p \in DOMAIN objects
              /\ objects[p].owner = g
              /\ \A h \in Goroutines \ {g} : p \notin Pointers(callers[h])

\* both calls are back from validation at once, g1's Put rejected and g2's
\* accepted and stored, each still holding what it allocated
C12_Witness ==
    /\ callers["g1"].pc = "done" /\ callers["g1"].op = "Put"
    /\ callers["g1"].verr /= Nil /\ Pointers(callers["g1"]) /= {}
    /\ callers["g2"].pc = "done" /\ callers["g2"].op = "Put"
    /\ callers["g2"].verr = Nil /\ Pointers(callers["g2"]) /= {}
    /\ Entries(inner) = 1

(***************************************************************************)
(* C13: on one decorator, whether a call is rejected and with which error  *)
(* depends on its key and value alone: a call ends validation as the       *)
(* remembered earlier call with the same arguments did and as a call with  *)
(* the same arguments in progress does, whatever the inner store holds,    *)
(* whatever calls came before and whatever call runs beside it.            *)
(***************************************************************************)
C13_VerdictDependsOnInputOnly ==
    \A g \in Goroutines :
        callers[g].decided =>
            /\ sample /= Nil /\ SameInput(sample[1], callers[g]) =>
                  callers[g].verr = sample[1].verr
            /\ \A h \in Goroutines :
                  callers[h].decided /\ SameInput(callers[h], callers[g]) =>
                      callers[h].verr = callers[g].verr

\* a call is rejected as the remembered call with the same arguments was,
\* which returned to an empty store with no other call in progress; now
\* the store holds an entry and the other goroutine is in mid-call
C13_Witness ==
    \E g \in Goroutines :
        /\ callers[g].pc = "done" /\ callers[g].verr /= Nil
        /\ sample /= Nil /\ SameInput(sample[1], callers[g])
        /\ sample[1].verr = callers[g].verr
        /\ Entries(inner) = 1
        /\ \E h \in Goroutines \ {g} : MidCall(h)

(***************************************************************************)
(* Vocabulary of the properties of the closed store                        *)
(***************************************************************************)
\* the calls on the inner store that are not Close
DataCalls(calls) == SelectSeq(calls, LAMBDA ic : ic.op /= "Close")

ClosedError == Some(Errorf("store is closed"))

C27_ServerErrorTextIsStoreErrorText ==
    (call.op \in Validated /\ ret.err /= Nil) =>
        /\ status /= Nil
        /\ StatusErrorError(status[1]) = ret.err[1].text

(***************************************************************************)
(* C28: every validation failure of the default-configured decorator       *)
(* behind the server (empty key, key over 1024, value over 100 MiB) comes  *)
(* out of the server with the status InvalidArgument.                      *)
(***************************************************************************)
C28_ValidationFailureIsInvalidArgument ==
    (IsDefault /\ Rejected(call)) =>
        /\ status /= Nil
        /\ status[1].code = "InvalidArgument"

(***************************************************************************)
(* C29: with every write made through one default-configured decorator    *)
(* over a store that was empty, every key the inner store holds has a      *)
(* character that is not white space and is at most 1024 bytes long, and   *)
(* every value it holds is at most 100 MiB, after any sequence of calls.   *)
(***************************************************************************)
C29_StoredEntriesAreValid ==
    (IsDefault /\ inner.data /= Nil) =>
        \A k \in DOMAIN inner.data[1] :
            /\ TrimSpace(k) /= <<>>
            /\ StrLen(k) <= 1024
            /\ StrLen(inner.data[1][k]) <= 100 * MiB

\* the store behind the default decorator holds a key of 1024 bytes and a
\* value of 100 MiB, and a Put has just been rejected
C29_Witness ==
    /\ IsDefault /\ inner.data /= Nil
    /\ \E k \in DOMAIN inner.data[1] : StrLen(k) = 1024
    /\ \E k \in DOMAIN inner.data[1] : StrLen(inner.data[1][k]) = 100 * MiB
    /\ call.op = "Put" /\ Rejected(call)

(***************************************************************************)
(* C30: Close on the decorator runs no validator and closes the inner      *)
(* store; on the closed store a Get, Put or Delete that fails validation   *)
(* still returns the validation error and makes no call on the inner       *)
(* store, and one that passes returns what the closed inner store returns, *)
(* its error unchanged.                                                    *)
(***************************************************************************)
C30_ValidationPrecedesClosedStore ==
    /\ call.op = "Close" =>
          /\ trace = <<>>
          /\ innerCalls = <<InnerCall("Close", <<>>, Nil, ret)>>
          /\ inner.data = Nil
          /\ ret.err = Nil
    /\ (call.op \in Validated /\ inner.data = Nil) =>
          IF Rejected(call)
          THEN /\ innerCalls = <<>>
               /\ ret.err = Some(Errorf(ValidationErrorError(FirstViolation(call))))
          ELSE /\ Len(innerCalls) = 1
               /\ innerCalls[1].op = call.op /\ innerCalls[1].key = call.key
               /\ ret = innerCalls[1].ret
               /\ ret.err /= Nil
               /\ call.key /= <<>> => ret.err = ClosedError

\* on the closed store a Put with a valid key and an oversized value came
\* back with the value rule's error
C30_Witness ==
    /\ inner.data = Nil
    /\ call.op = "Put" /\ ~KeyFails(call) /\ ValueFails(call)
    /\ innerCalls = <<>>
    /\ ret.err /= Nil /\ ret.err /= ClosedError

(***************************************************************************)
(* Vocabulary of the layered properties                                    *)
(***************************************************************************)
\* the call c violates a key rule or (a Put) a value rule of the decorator
\* layer
LayerFails(layer, c) ==
    \/ \E i \in 1..Len(layer.keyValidator.chain.validators) :
          ValidatorValidate(layer.keyValidator.chain.validators[i], c.key,
                            NewContext("key")) /= Nil
    \/ /\ c.op = "Put"
       /\ \E i \in 1..Len(layer.valueValidator.validators) :
             ValueRuleValidate(layer.valueValidator.validators[i], c.key,
                 c.value[1],
                 ContextWithMetadata(NewContext("value"), "key", c.key)) /= Nil

\* the validator calls of the trace that the inner decorator made
InnerLayerCalls ==
    SelectSeq(trace, LAMBDA e : e.adapter \in {"inner key", "inner value"})

(***************************************************************************)
(* C24: with one decorator over another, a Get, Put or Delete reaches the  *)
(* base store only when the rules of the outer and of the inner decorator  *)
(* all pass, and when a rule of the outer decorator fails neither a        *)
(* validator of the inner decorator nor the base store is invoked.         *)
(***************************************************************************)
C24_LayersAllPassBeforeBase ==
    call.op \in Validated =>
        /\ innerCalls /= <<>> =>
              ~LayerFails(Self, call) /\ ~LayerFails(inner, call)
        /\ LayerFails(Self, call) =>
              innerCalls = <<>> /\ InnerLayerCalls = <<>>

\* a Put that the outer decorator rejects and the inner one would take has
\* returned with the base store holding an entry: no validator of the
\* inner decorator ran
C24_Witness ==
    /\ call.op = "Put"
    /\ LayerFails(Self, call) /\ ~LayerFails(inner, call)
    /\ Entries(inner.inner) > 0
    /\ innerCalls = <<>> /\ InnerLayerCalls = <<>>
    /\ ret.err /= Nil

(***************************************************************************)
(* Vocabulary of the factory properties                                    *)
(***************************************************************************)
\* GetName() of a held value's Validator on the heap nm
NameOf(nm, item) == GetNameOn(nm, ValidatorOf(item))

\* what Validate of a held value returns on each value of its type
Behaviour(item) ==
    [value \in InputsOf(item) |-> ItemValidate(item, value, NewContext("field"))]

\* the factory calls
FactoryOps == { f.kind : f \in Factories }

(***************************************************************************)
(* C21: WithName on a Validator or on a ConditionalValidator returns a new *)
(* value that carries the given name, and every value held before the      *)
(* call, the receiver among them, has the GetName() result and the         *)
(* validation behaviour after the call that it had before.                 *)
(***************************************************************************)
C21_WithNameLeavesReceiver ==
    [][ did'.op \in {"WithName", "ConditionalValidator.WithName"} =>
          /\ Len(built') = Len(built) + 1
          /\ NameOf(names', built'[Len(built')]) = did'.name
          /\ Behaviour(built'[Len(built')]) = Behaviour(built[did'.of])
          /\ \A i \in 1..Len(built) :
                /\ built'[i] = built[i]
                /\ NameOf(names', built'[i]) = NameOf(names, built[i])
                /\ Behaviour(built'[i]) = Behaviour(built[i]) ]_vars

\* a Validator that has a name was given another one, while the Validator
\* it was made from, which never had a name, is held as well
C21_Witness ==
    /\ did.op = "WithName"
    /\ built[did.of].Name /= Nil
    /\ NameOf(names, built[did.of]) /= did.name
    /\ NameOf(names, built[Len(built)]) = did.name
    /\ \E i \in 1..Len(built) :
          /\ ~IsConditional(built[i])
          /\ built[i].Name = Nil
          /\ NameOf(names, built[i]) = "unnamed-validator"

(***************************************************************************)
(* C22: the validator that a built-in factory has just returned has a name *)
(* set, so its GetName() is not the default "unnamed-validator".           *)
(***************************************************************************)
C22_FactoriesReturnNamed ==
    did.op \in FactoryOps =>
        /\ built[Len(built)].Name /= Nil
        /\ NameOf(names, built[Len(built)]) /= "unnamed-validator"

(***************************************************************************)
(* C23: the error that the Validate of a factory-made validator has just   *)
(* returned carries metadata: its metadata bag is not empty.               *)
(***************************************************************************)
C23_FactoryErrorsCarryMetadata ==
    (did.op = "Validate" /\ did.err /= Nil) =>
        DOMAIN did.err[1].ErrorData.Metadata /= {}

(***************************************************************************)
(* Vocabulary of the shared MemoryStore                                    *)
(***************************************************************************)
\* the call of the frame holds ms.mu
HoldsLock(fr) == fr.pc \in {"locked", "copy", "range", "unlock"}

\* the byte slices a result hands to the caller
ValuesIn(r) ==
    (IF r.value /= Nil THEN {r.value[1]} ELSE {})
    \cup (IF r.scan /= Nil THEN {r.scan[1][k] : k \in DOMAIN r.scan[1]} ELSE {})

(***************************************************************************)
(* C26: calls on a MemoryStore that overlap each take effect as one step   *)
(* under the store's lock: while a Put, Delete or Close holds the lock no  *)
(* other call does; when a call is about to unlock, what it returns and    *)
(* what the store holds are what the method yields as one step on the      *)
(* store as it was when the call took the lock; a Get of k that began      *)
(* after a Put(k, v) had returned, with no Put or Delete of k and no Close *)
(* in progress during either or between them, returns (v, true, nil); and  *)
(* every value a call returns is a value that was put, whole.              *)
(***************************************************************************)
C26_CallsTakeEffectAtomically ==
    \A g \in Goroutines :
        LET fr == routines[g]
            seq == Sequential([data |-> fr.seen], fr.op, fr.key, fr.value)
        IN  /\ (HoldsLock(fr) /\ Locks(fr.op)) =>
                  /\ memory.mu = [writer |-> Some(g), readers |-> {}]
                  /\ \A h \in Goroutines \ {g} : ~HoldsLock(routines[h])
            /\ (HoldsLock(fr) /\ ~Locks(fr.op)) =>
                  g \in memory.mu.readers /\ memory.mu.writer = Nil
            /\ fr.pc = "unlock" =>
                  fr.ret = seq.ret /\ memory.data = seq.store.data
            /\ (fr.pc = "returned" /\ fr.op = "Get" /\ fr.expected /= Nil) =>
                  fr.ret = Result(fr.expected, TRUE, Nil, Nil)
            /\ fr.pc = "returned" => ValuesIn(fr.ret) \subseteq MemValues

\* a Get has returned the value of the Put that had returned before it
\* began, and meanwhile another goroutine's Put of another key holds the
\* lock with its copy half done
C26_Witness ==
    \E g \in Goroutines, h \in Goroutines :
        /\ routines[g].pc = "returned" /\ routines[g].op = "Get"
        /\ routines[g].expected /= Nil
        /\ routines[g].ret = Result(routines[g].expected, TRUE, Nil, Nil)
        /\ routines[h].op = "Put" /\ routines[h].key /= routines[g].key
        /\ routines[h].pc = "copy" /\ routines[h].i = 1
        /\ routines[h].local \notin MemValues

====
